---------------------------- MODULE Spec2Model ----------------------------
(***************************************************************************)
(* A model of easyeda2kicad.rs: the decoders (src/src/importer.rs), the    *)
(* geometry normalizer and the mesh reformatter (src/src/converter.rs)     *)
(* and the serializer (src/src/kicad_models.rs).                           *)
(*                                                                         *)
(* Numbers.  The program computes in f32.  The model computes in exact     *)
(* fixed point: a source length is an integer number of source units, a    *)
(* target length is an integer number of 1/(1000*Sub) mm, so that the      *)
(* factor 0.254, the halving of a bounding box and the division of a sum   *)
(* by a count of pads or texts are all exact.  Rounding of f32 is not      *)
(* modelled.  i32 arithmetic keeps its width.                              *)
(*                                                                         *)
(* Text.  A string the program inspects character by character is a        *)
(* sequence of one-character strings; Chars turns a literal into one.      *)
(***************************************************************************)
EXTENDS Integers, Sequences, FiniteSets, TLC

VARIABLES
    pc,             \* position of the call under study
    overflowChecks, \* build profile: TRUE = integer overflow panics, FALSE = it wraps
    eeSymbol,       \* convert_symbol: the decoded symbol handed in
    symResult,      \* convert_symbol: what the call returned
    symText,        \* to_kicad_lib_entry: the text rendered from symResult
    eeFootprint,    \* convert_footprint: the decoded footprint handed in
    kiModel,        \* convert_footprint: the converted 3D model handed in (an Option)
    fpResult,       \* convert_footprint: what the call returned
    modText,        \* to_kicad_mod_entry: the text rendered from fpResult
    payload,        \* the decoders: the component's payload
    impSymbol,      \* import_symbol: what the call returned
    impFootprint,   \* import_footprint: what the call returned
    impModelInfo,   \* import_3d_model_info: what the call returned
    eeModel,        \* convert_3d_model: the model handed in
    meshResult,     \* convert_3d_model: what the call returned
    apiResponse,    \* import_component: the answer of the component endpoint
    fetches,        \* import_component: the mesh fetch and the solid fetch
    fsDirs,         \* output directory: the directories made
    libSymbols,     \* output directory: names of the entries of symbols/lib.kicad_sym
    fsFiles,        \* output directory: paths of the footprint and model files
    fsLog,          \* output directory: the operations made, in order
    compResult,     \* import_component: what the call returned
    libFile,        \* add_symbol: the text of symbols/lib.kicad_sym, None while missing
    libCalls        \* add_symbol: the symbols handed in so far, each with its outcome

symVars == <<eeSymbol, symResult, symText>>
fpVars == <<eeFootprint, kiModel, fpResult, modText>>
impVars == <<payload, impSymbol, impFootprint, impModelInfo>>
meshVars == <<eeModel, meshResult>>
compVars == <<apiResponse, fetches, fsDirs, libSymbols, fsFiles, fsLog, compResult>>
libVars == <<libFile, libCalls>>

(***************************************************************************)
(* Bounds of the model.                                                    *)
(***************************************************************************)
MaxPins == 2
MaxRects == 1
\* A decoded footprint holds at most MaxShapes pads, tracks, circles and texts in all.
MaxShapes == 3
\* A shape array holds at most MaxLines entries.
MaxLines == 2
\* A mesh text holds at most MaxMeshLines lines.
MaxMeshLines == 2
\* The layer ids run from -MaxLayerId to MaxLayerId, and the two ends of i32.
MaxLayerId == 20
\* A shape array of a payload the component endpoint answers with holds at
\* most MaxCadLines entries.
MaxCadLines == 1
\* add_symbol is called at most MaxAdds times on one library file.
MaxAdds == 3

(***************************************************************************)
(* Generic helpers.                                                        *)
(***************************************************************************)
None == [some |-> FALSE]
Some(v) == [some |-> TRUE, val |-> v]

Abs(x) == IF x < 0 THEN -x ELSE x
MaxOf(a, b) == IF a > b THEN a ELSE b

\* All sequences over S of length at most n.
SeqsUpTo(S, n) == UNION {[1..k -> S] : k \in 0..n}

Chars(s) == [i \in 1..Len(s) |-> SubSeq(s, i, i)]

RECURSIVE Gcd(_, _)
Gcd(a, b) == IF b = 0 THEN a ELSE Gcd(b, a % b)

RECURSIVE LcmUpTo(_)
LcmUpTo(n) == IF n <= 1 THEN 1 ELSE LET l == LcmUpTo(n - 1) IN (l * n) \div Gcd(l, n)

(***************************************************************************)
(* Fixed point.  Sub is the number of parts a micrometre is cut into: even *)
(* (a bounding box is halved, a pad size is halved) and a multiple of      *)
(* every count a centroid can be divided by.                               *)
(***************************************************************************)
Sub == 2 * LcmUpTo(MaxShapes)

\* A literal of the source given in micrometres (150.0 mm is Mm(150000)).
Mm(micro) == micro * Sub

\* The largest finite f32, as far as the comparisons of the bounding box go:
\* above every value a position can take in the model.
F32_MAX == 2000000000

I32_MAX == 2147483647
I32_MIN == -I32_MAX - 1

(***************************************************************************)
(* Rust integer arithmetic.                                                *)
(***************************************************************************)
\* a + b for i32 a and 0 <= b: the sum, or the wrapped sum with overflow flagged.
I32Add(a, b) ==
    IF a > I32_MAX - b
    THEN [overflow |-> TRUE, val |-> I32_MIN + (b - (I32_MAX - a) - 1)]
    ELSE [overflow |-> FALSE, val |-> a + b]

\* a % b of Rust for b > 0: the remainder takes the sign of the dividend.
RustRem(a, b) == IF a >= 0 THEN a % b ELSE -((-a) % b)

(***************************************************************************)
(* converter.rs: unit conversion and the lookup tables.                    *)
(***************************************************************************)
ee_to_mm(val) == val * 254 * Sub

map_pin_type(ee_type) ==
    CASE ee_type = "1" -> "Input"
      [] ee_type = "2" -> "Output"
      [] ee_type = "3" -> "Bidirectional"
      [] ee_type = "4" -> "PowerIn"
      [] OTHER -> "Passive"

(***************************************************************************)
(* converter.rs: convert_symbol.                                           *)
(***************************************************************************)
raw_pins(s) ==
    [i \in 1..Len(s.pins) |->
        <<ee_to_mm(s.pins[i].pos_x - s.bbox[1]),
          ee_to_mm(-(s.pins[i].pos_y - s.bbox[2]))>>]

raw_rects(s) ==
    [i \in 1..Len(s.rectangles) |->
        LET r == s.rectangles[i]
            start_x == ee_to_mm(r.x - s.bbox[1])
            start_y == ee_to_mm(-(r.y - s.bbox[2]))
        IN  <<<<start_x, start_y>>,
              <<start_x + ee_to_mm(r.width), start_y - ee_to_mm(r.height)>>>>]

\* The points the bounding box runs over, in the order of the two loops.
RECURSIVE RectCorners(_)
RectCorners(rs) ==
    IF rs = <<>> THEN <<>>
    ELSE <<Head(rs)[1], Head(rs)[2]>> \o RectCorners(Tail(rs))

BoxPoints(s) == raw_pins(s) \o RectCorners(raw_rects(s))

\* The running minimum / maximum of coordinate k, updated as the loops do.
RECURSIVE FoldMin(_, _, _)
FoldMin(pts, k, acc) ==
    IF pts = <<>> THEN acc
    ELSE FoldMin(Tail(pts), k, IF Head(pts)[k] < acc THEN Head(pts)[k] ELSE acc)

RECURSIVE FoldMax(_, _, _)
FoldMax(pts, k, acc) ==
    IF pts = <<>> THEN acc
    ELSE FoldMax(Tail(pts), k, IF Head(pts)[k] > acc THEN Head(pts)[k] ELSE acc)

\* center_x = (min_x + max_x) / 2.0, center_y likewise, of the box of pts.
BoxCenter(pts) ==
    <<(FoldMin(pts, 1, F32_MAX) + FoldMax(pts, 1, -F32_MAX)) \div 2,
      (FoldMin(pts, 2, F32_MAX) + FoldMax(pts, 2, -F32_MAX)) \div 2>>

\* Faulty variant: the bounding box taken over the pins alone.
SymbolCenterPinsOnly(s) == BoxCenter(raw_pins(s))
SymbolCenter(s) == BoxCenter(BoxPoints(s))

\* rotation: (ee_pin.rotation + 180) % 360
PinRotation(r) ==
    LET sum == I32Add(r, 180)
    IN  [overflow |-> sum.overflow, val |-> RustRem(sum.val, 360)]

ki_pins(s) ==
    LET c == SymbolCenter(s)
        raw == raw_pins(s)
    IN  [i \in 1..Len(s.pins) |->
            [name     |-> s.pins[i].name,
             number   |-> s.pins[i].number,
             pin_type |-> map_pin_type(s.pins[i].pin_type),
             length   |-> ee_to_mm(s.pins[i].pin_length),
             pos      |-> <<raw[i][1] - c[1], raw[i][2] - c[2]>>,
             rotation |-> PinRotation(s.pins[i].rotation).val]]

ki_rects(s) ==
    LET c == SymbolCenter(s)
        raw == raw_rects(s)
    IN  [i \in 1..Len(s.rectangles) |->
            [start |-> <<raw[i][1][1] - c[1], raw[i][1][2] - c[2]>>,
             end   |-> <<raw[i][2][1] - c[1], raw[i][2][2] - c[2]>>]]

unwrap_or_default(opt) == IF opt.some THEN opt.val ELSE ""

\* The call panics when a pin's rotation + 180 overflows and the build checks.
RotationOverflows(s) == \E i \in 1..Len(s.pins) : PinRotation(s.pins[i].rotation).overflow

convert_symbol(s, checks) ==
    IF checks /\ RotationOverflows(s)
    THEN [kind |-> "Panic"]
    ELSE [kind |-> "Ok",
          val  |-> [name        |-> s.info.name,
                    reference   |-> s.info.prefix,
                    footprint   |-> unwrap_or_default(s.info.package),
                    datasheet   |-> unwrap_or_default(s.info.datasheet),
                    lcsc_part   |-> s.info.lcsc_id,
                    pins        |-> ki_pins(s),
                    rectangles  |-> ki_rects(s),
                    is_extended |-> s.info.is_extended]]

(***************************************************************************)
(* Inputs of convert_symbol.                                               *)
(***************************************************************************)
PinPosVals == {<<-5, 0>>, <<5, 0>>, <<2, -7>>}
RotVals == {0, 180, 270, -270, I32_MAX}

\* Name, number, type and length follow the position and the rotation, so that
\* different pins carry different texts.
PinName(p) == IF p[1] < 0 THEN "VCC" ELSE IF p[1] > 2 THEN "~RST" ELSE "GND"
PinNumber(r) ==
    CASE r = 0 -> "1" [] r = 180 -> "2" [] r = 270 -> "3" [] r = -270 -> "4" [] OTHER -> "5"

\* The pins: every rotation at the first position, and a few at the others.
PinPlaces ==
    {pr \in PinPosVals \X RotVals :
        pr[1] = <<-5, 0>> \/ pr[2] = 0 \/ (pr[1] = <<5, 0>> /\ pr[2] = 180)}

SymPins ==
    {[number |-> PinNumber(pr[2]), name |-> PinName(pr[1]),
      pos_x |-> pr[1][1], pos_y |-> pr[1][2],
      rotation |-> pr[2], pin_type |-> PinNumber(pr[2]), pin_length |-> 10] :
        pr \in PinPlaces}

SymRects ==
    {[x |-> -3, y |-> -1, width |-> 6, height |-> 2],
     [x |-> 1, y |-> 4, width |-> -4, height |-> 9],
     [x |-> 8, y |-> 8, width |-> 0, height |-> 0]}

SymInfos ==
    {[name |-> "TEST_R", prefix |-> "R", package |-> Some("0805"), datasheet |-> None,
      lcsc_id |-> Some("C1234"), is_extended |-> FALSE],
     [name |-> "MCU", prefix |-> "U", package |-> None, datasheet |-> Some("https://x.y/d.pdf"),
      lcsc_id |-> None, is_extended |-> TRUE]}

SymBboxes == {<<0, 0>>, <<400, 300>>}

EeSymbols ==
    {[info |-> i, bbox |-> b, pins |-> ps, rectangles |-> rs] :
        i \in SymInfos, b \in SymBboxes,
        ps \in SeqsUpTo(SymPins, MaxPins), rs \in SeqsUpTo(SymRects, MaxRects)}

(***************************************************************************)
(* Text helpers: what str::contains, str::starts_with and str::trim        *)
(* decide, on sequences of characters.                                     *)
(***************************************************************************)
IsPrefixAt(sub, s, i) ==
    /\ i + Len(sub) - 1 <= Len(s)
    /\ \A k \in 1..Len(sub) : s[i + k - 1] = sub[k]

Contains(s, sub) == \E i \in 1..(Len(s) + 1) : IsPrefixAt(sub, s, i)
StartsWith(s, sub) == IsPrefixAt(sub, s, 1)

Whitespace == {" ", "\t", "\n", "\r"}

\* number.trim().is_empty()
TrimIsEmpty(str) == \A i \in 1..Len(str) : SubSeq(str, i, i) \in Whitespace

(***************************************************************************)
(* converter.rs: map_layer, map_shape.                                     *)
(***************************************************************************)
\* Faulty variant: the lookup by id made for through-hole pads as well.
map_layer_by_id_only(layer_id, is_smd) ==
    CASE layer_id = 1 -> <<"F.Cu", "F.Paste", "F.Mask">>
      [] layer_id = 2 -> <<"B.Cu", "B.Paste", "B.Mask">>
      [] layer_id = 3 -> <<"F.SilkS">>
      [] layer_id = 4 -> <<"B.SilkS">>
      [] layer_id = 13 -> <<"F.Fab">>
      [] layer_id = 15 -> <<"Dwgs.User">>
      [] OTHER -> <<"F.Fab">>
map_layer(layer_id, is_smd) ==
    IF ~is_smd THEN <<"*.Cu", "*.Mask">>
    ELSE CASE layer_id = 1 -> <<"F.Cu", "F.Paste", "F.Mask">>
           [] layer_id = 2 -> <<"B.Cu", "B.Paste", "B.Mask">>
           [] layer_id = 3 -> <<"F.SilkS">>
           [] layer_id = 4 -> <<"B.SilkS">>
           [] layer_id = 13 -> <<"F.Fab">>
           [] layer_id = 15 -> <<"Dwgs.User">>
           [] OTHER -> <<"F.Fab">>

map_shape(shape) ==
    CASE shape = "ELLIPSE" -> "Circle"
      [] shape = "RECT" -> "Rect"
      [] shape = "OVAL" -> "Oval"
      [] OTHER -> "Rect"

(***************************************************************************)
(* converter.rs: convert_footprint.                                        *)
(***************************************************************************)
\* Faulty variant: the y axis turned over, as it is for symbols.
raw_pad_pos_y_up(fp) ==
    [i \in 1..Len(fp.pads) |->
        <<ee_to_mm(fp.pads[i].center_x - fp.bbox[1]),
          ee_to_mm(-(fp.pads[i].center_y - fp.bbox[2]))>>]
raw_pad_pos(fp) ==
    [i \in 1..Len(fp.pads) |->
        <<ee_to_mm(fp.pads[i].center_x - fp.bbox[1]),
          ee_to_mm(fp.pads[i].center_y - fp.bbox[2])>>]

raw_text_pos(fp) ==
    [i \in 1..Len(fp.texts) |->
        <<ee_to_mm(fp.texts[i].center_x - fp.bbox[1]),
          ee_to_mm(fp.texts[i].center_y - fp.bbox[2])>>]

RECURSIVE SumCoord(_, _)
SumCoord(pts, k) == IF pts = <<>> THEN 0 ELSE Head(pts)[k] + SumCoord(Tail(pts), k)

\* sum / count on each axis when count > 0, else (0, 0).
Centroid(pts) ==
    LET count == Len(pts)
    IN  IF count > 0
        THEN <<SumCoord(pts, 1) \div count, SumCoord(pts, 2) \div count>>
        ELSE <<0, 0>>

\* Faulty variant: no fallback to the texts.
FootprintCenterPadsOnly(fp) == Centroid(raw_pad_pos(fp))
\* Faulty variant: the texts are summed along with the pads.
FootprintCenterPadsAndTexts(fp) == Centroid(raw_pad_pos(fp) \o raw_text_pos(fp))
\* The centroid: of the pads, of the texts when there is no pad, else (0, 0).
FootprintCenter(fp) ==
    Centroid(IF Len(fp.pads) # 0 THEN raw_pad_pos(fp) ELSE raw_text_pos(fp))

is_smd(ee_pad) == ee_pad.hole_radius = 0 /\ ee_pad.hole_length = 0

\* (drill, drill_oval) of a pad.
\* Faulty variant: the round drill kept beside the oval one.
PadDrillBoth(ee_pad) ==
    IF is_smd(ee_pad) THEN <<None, None>>
    ELSE <<Some(ee_to_mm(ee_pad.hole_radius * 2)),
           IF ee_pad.hole_length > 0
           THEN Some(<<ee_to_mm(ee_pad.hole_radius * 2), ee_to_mm(ee_pad.hole_length)>>)
           ELSE None>>
\* Faulty variant: only the oval drill is kept.
PadDrillOvalOnly(ee_pad) ==
    IF ee_pad.hole_length > 0
    THEN <<None, Some(<<ee_to_mm(ee_pad.hole_radius * 2), ee_to_mm(ee_pad.hole_length)>>)>>
    ELSE <<None, None>>
PadDrill(ee_pad) ==
    IF is_smd(ee_pad) THEN <<None, None>>
    ELSE IF ee_pad.hole_length > 0
    THEN <<None, Some(<<ee_to_mm(ee_pad.hole_radius * 2), ee_to_mm(ee_pad.hole_length)>>)>>
    ELSE <<Some(ee_to_mm(ee_pad.hole_radius * 2)), None>>

\* Faulty variant: every pad renumbered by its position.
PadNumberAlwaysIndex(ee_pad, idx) == ToString(idx)
PadNumber(ee_pad, idx) ==
    IF TrimIsEmpty(ee_pad.number) THEN ToString(idx) ELSE ee_pad.number

ki_pads(fp) ==
    LET c == FootprintCenter(fp)
        raw == raw_pad_pos(fp)
    IN  [i \in 1..Len(fp.pads) |->
            LET ee_pad == fp.pads[i] IN
            [number     |-> PadNumber(ee_pad, i),
             pad_type   |-> IF is_smd(ee_pad) THEN "smd" ELSE "thru_hole",
             shape      |-> map_shape(ee_pad.shape),
             pos        |-> <<raw[i][1] - c[1], raw[i][2] - c[2]>>,
             size       |-> <<ee_to_mm(ee_pad.width), ee_to_mm(ee_pad.height)>>,
             layers     |-> map_layer(ee_pad.layer_id, is_smd(ee_pad)),
             rotation   |-> -ee_pad.rotation,
             drill      |-> PadDrill(ee_pad)[1],
             drill_oval |-> PadDrill(ee_pad)[2]]]

\* Faulty variant: copper counts as a graphic layer too.
is_graphic_layer_or_copper(layer_name) ==
    \/ Contains(Chars(layer_name), Chars("Silk"))
    \/ Contains(Chars(layer_name), Chars("Fab"))
    \/ Contains(Chars(layer_name), Chars("Dwgs"))
    \/ Contains(Chars(layer_name), Chars("Cu"))
is_graphic_layer(layer_name) ==
    \/ Contains(Chars(layer_name), Chars("Silk"))
    \/ Contains(Chars(layer_name), Chars("Fab"))
    \/ Contains(Chars(layer_name), Chars("Dwgs"))

\* A track point in target space, relative to the center.
TrackPoint(fp, pt) ==
    LET c == FootprintCenter(fp)
    IN  <<ee_to_mm(pt[1] - fp.bbox[1]) - c[1], ee_to_mm(pt[2] - fp.bbox[2]) - c[2]>>

\* The sanity check of a segment: TRUE when the segment is skipped.
SegmentSkipped(start, end) ==
    Abs(start[1]) > Mm(150000) \/ Abs(start[2]) > Mm(150000)

\* The lines of one track, from segment i on.
RECURSIVE TrackLinesFrom(_, _, _)
TrackLinesFrom(fp, track, i) ==
    IF i > Len(track.points) - 1 THEN <<>>
    ELSE LET start == TrackPoint(fp, track.points[i])
             end == TrackPoint(fp, track.points[i + 1])
             rest == TrackLinesFrom(fp, track, i + 1)
         IN  IF SegmentSkipped(start, end) THEN rest
             ELSE <<[layer |-> map_layer(track.layer_id, TRUE)[1],
                     width |-> ee_to_mm(track.stroke_width),
                     graphic_type |-> "Line", start |-> start, end |-> end]>> \o rest

TrackLines(fp, track) ==
    IF is_graphic_layer(map_layer(track.layer_id, TRUE)[1]) /\ Len(track.points) >= 2
    THEN TrackLinesFrom(fp, track, 1)
    ELSE <<>>

RECURSIVE TrackGraphicsFrom(_, _)
TrackGraphicsFrom(fp, i) ==
    IF i > Len(fp.tracks) THEN <<>>
    ELSE TrackLines(fp, fp.tracks[i]) \o TrackGraphicsFrom(fp, i + 1)

\* Faulty variant: the layer filter left out.
CircleKeptAnyLayer(fp, circle) ==
    LET c == FootprintCenter(fp)
        cx == ee_to_mm(circle.center_x - fp.bbox[1]) - c[1]
        cy == ee_to_mm(circle.center_y - fp.bbox[2]) - c[2]
    IN  /\ ~(Abs(cx) > Mm(150000) \/ Abs(cy) > Mm(150000))
        /\ ~(ee_to_mm(circle.radius) > Mm(50000))
\* The filters of a circle: TRUE when the circle is kept.
CircleKept(fp, circle) ==
    LET c == FootprintCenter(fp)
        cx == ee_to_mm(circle.center_x - fp.bbox[1]) - c[1]
        cy == ee_to_mm(circle.center_y - fp.bbox[2]) - c[2]
    IN  /\ circle.layer_id \in {1, 2, 3, 4}
        /\ ~(Abs(cx) > Mm(150000) \/ Abs(cy) > Mm(150000))
        /\ ~(ee_to_mm(circle.radius) > Mm(50000))

CircleGraphic(fp, circle) ==
    LET c == FootprintCenter(fp)
        cx == ee_to_mm(circle.center_x - fp.bbox[1]) - c[1]
        cy == ee_to_mm(circle.center_y - fp.bbox[2]) - c[2]
    IN  [layer |-> map_layer(circle.layer_id, TRUE)[1],
         width |-> ee_to_mm(circle.stroke_width),
         graphic_type |-> "Circle",
         center |-> <<cx, cy>>, end |-> <<cx + ee_to_mm(circle.radius), cy>>]

RECURSIVE CircleGraphicsFrom(_, _)
CircleGraphicsFrom(fp, i) ==
    IF i > Len(fp.circles) THEN <<>>
    ELSE (IF CircleKept(fp, fp.circles[i])
          THEN <<CircleGraphic(fp, fp.circles[i])>> ELSE <<>>)
         \o CircleGraphicsFrom(fp, i + 1)

ki_texts(fp) ==
    LET c == FootprintCenter(fp)
        raw == raw_text_pos(fp)
    IN  [i \in 1..Len(fp.texts) |->
            LET ee_text == fp.texts[i]
                text_type == CASE ee_text.text_type = "P" -> "value"
                               [] ee_text.text_type = "N" -> "reference"
                               [] OTHER -> "user"
            IN  [text_type |-> text_type,
                 text  |-> CASE text_type = "value" -> fp.info.name
                             [] text_type = "reference" -> "REF**"
                             [] OTHER -> ee_text.text,
                 pos   |-> <<raw[i][1] - c[1], raw[i][2] - c[2]>>,
                 layer |-> CASE text_type = "reference" -> "F.SilkS"
                             [] text_type = "value" -> "F.Fab"
                             [] OTHER -> map_layer(ee_text.layer_id, TRUE)[1]]]

\* ki_pads.iter().find(|p| p.number == n): the index of the first such pad, or 0.
FindPad(pads, n) ==
    IF \E i \in 1..Len(pads) : pads[i].number = n
    THEN CHOOSE i \in 1..Len(pads) :
            /\ pads[i].number = n
            /\ \A j \in 1..(i - 1) : pads[j].number # n
    ELSE 0

\* Faulty variant: the first pad numbered "1" or "A1", whichever comes first.
Pin1IndexFirstOfEither(pads) ==
    IF \E i \in 1..Len(pads) : pads[i].number \in {"1", "A1"}
    THEN CHOOSE i \in 1..Len(pads) :
            /\ pads[i].number \in {"1", "A1"}
            /\ \A j \in 1..(i - 1) : pads[j].number \notin {"1", "A1"}
    ELSE 0
Pin1Index(pads) == IF FindPad(pads, "1") # 0 THEN FindPad(pads, "1") ELSE FindPad(pads, "A1")

MarkerDir(p) == IF p < -Mm(10) THEN -1 ELSE IF p > Mm(10) THEN 1 ELSE -1

\* The pin-1 marker: no graphic, or one circle.
Pin1Marker(pads) ==
    IF Pin1Index(pads) = 0 THEN <<>>
    ELSE LET p1 == pads[Pin1Index(pads)]
             dot_x == p1.pos[1] + ((p1.size[1] \div 2) + Mm(500)) * MarkerDir(p1.pos[1])
             dot_y == p1.pos[2] + ((p1.size[2] \div 2) + Mm(500)) * MarkerDir(p1.pos[2])
         IN  <<[layer |-> "F.SilkS", width |-> Mm(150), graphic_type |-> "Circle",
                center |-> <<dot_x, dot_y>>, end |-> <<dot_x + Mm(250), dot_y>>]>>

ki_graphics(fp) ==
    TrackGraphicsFrom(fp, 1) \o CircleGraphicsFrom(fp, 1) \o Pin1Marker(ki_pads(fp))

convert_footprint(fp, ki_model) ==
    [kind |-> "Ok",
     val  |-> [name     |-> fp.info.name,
               pads     |-> ki_pads(fp),
               texts    |-> ki_texts(fp),
               graphics |-> ki_graphics(fp),
               model_3d |-> ki_model]]

(***************************************************************************)
(* kicad_models.rs: KiFootprint::to_kicad_mod_entry.  The text is a        *)
(* sequence of tokens: "(" and ")" and the line terminator "\n" are tokens *)
(* of their own, a piece of the format string or a string field is one     *)
(* token, and a number rendered with {} is the token Num(v).               *)
(***************************************************************************)
Num(v) == <<"num", v>>

RECURSIVE Join(_, _)
Join(strs, sep) ==
    IF strs = <<>> THEN <<>>
    ELSE IF Len(strs) = 1 THEN <<strs[1]>>
    ELSE <<strs[1], sep>> \o Join(Tail(strs), sep)

ModHeaderLine(fp) == <<"(", "module ", fp.name, " ", "(", "layer F.Cu", ")", "\n">>

FpTextLine(text) ==
    <<"  ", "(", "fp_text ", text.text_type, " ", text.text, " ",
      "(", "at ", Num(text.pos[1]), " ", Num(text.pos[2]), ")", " ",
      "(", "layer ", text.layer, ")", " ",
      "(", "effects ", "(", "font ", "(", "size 1 1", ")", " ",
      "(", "thickness 0.15", ")", ")", ")", ")", "\n">>

Xyz(v) == <<"(", "xyz ", Num(v[1]), " ", Num(v[2]), " ", Num(v[3]), ")">>

ModelBlock(model) ==
    <<"  ", "(", "model \"../3dmodels.3dshapes/", model.name, ".wrl\"", "\n",
      "    ", "(", "offset ">> \o Xyz(model.offset) \o <<")", "\n",
      "    ", "(", "scale ">> \o Xyz(model.scale) \o <<")", "\n",
      "    ", "(", "rotate ">> \o Xyz(model.rotate) \o <<")", "\n",
      "  ", ")", "\n">>

PadLineHead(pad) ==
    <<"  ", "(", "pad ", pad.number, " ", pad.pad_type, " ",
      CASE pad.shape = "Circle" -> "circle" [] pad.shape = "Rect" -> "rect" [] OTHER -> "oval",
      " ", "(", "at ", Num(pad.pos[1]), " ", Num(pad.pos[2]), " ", Num(pad.rotation), ")", " ",
      "(", "size ", Num(pad.size[1]), " ", Num(pad.size[2]), ")", " ",
      "(", "layers ">> \o Join(pad.layers, " ") \o <<")">>

PadLine(pad) ==
    IF pad.drill_oval.some
    THEN PadLineHead(pad) \o <<" ", "(", "drill oval ", Num(pad.drill_oval.val[1]), " ",
                               Num(pad.drill_oval.val[2]), ")", ")", "\n">>
    ELSE IF pad.drill.some
    THEN PadLineHead(pad) \o <<" ", "(", "drill ", Num(pad.drill.val), ")", ")", "\n">>
    ELSE PadLineHead(pad) \o <<")", "\n">>

RECURSIVE FpTextLines(_)
FpTextLines(texts) ==
    IF texts = <<>> THEN <<>> ELSE FpTextLine(Head(texts)) \o FpTextLines(Tail(texts))

RECURSIVE PadLines(_)
PadLines(pads) ==
    IF pads = <<>> THEN <<>> ELSE PadLine(Head(pads)) \o PadLines(Tail(pads))

\* The struct the serializer reads has the fields name, pads, texts and model_3d.
to_kicad_mod_entry(fp) ==
    ModHeaderLine(fp)
    \o FpTextLines(fp.texts)
    \o (IF fp.model_3d.some THEN ModelBlock(fp.model_3d.val) ELSE <<>>)
    \o PadLines(fp.pads)
    \o <<")", "\n">>

(***************************************************************************)
(* Inputs of convert_footprint.                                            *)
(***************************************************************************)
FpPads ==
    {[shape |-> "RECT", center_x |-> 0, center_y |-> 0, width |-> 5, height |-> 2,
      layer_id |-> 1, number |-> "1", hole_radius |-> 0, hole_length |-> 0, rotation |-> 0],
     [shape |-> "ELLIPSE", center_x |-> 20, center_y |-> 0, width |-> 6, height |-> 6,
      layer_id |-> 11, number |-> "2", hole_radius |-> 2, hole_length |-> 0, rotation |-> 90],
     [shape |-> "OVAL", center_x |-> -20, center_y |-> 0, width |-> 8, height |-> 4,
      layer_id |-> 2, number |-> "A1", hole_radius |-> 2, hole_length |-> 5, rotation |-> 0],
     [shape |-> "POLYGON", center_x |-> 4, center_y |-> -8, width |-> 3, height |-> 3,
      layer_id |-> 1, number |-> " ", hole_radius |-> 0, hole_length |-> 3, rotation |-> 270],
     [shape |-> "RECT", center_x |-> 720, center_y |-> 0, width |-> 4, height |-> 4,
      layer_id |-> 2, number |-> "", hole_radius |-> 0, hole_length |-> 0, rotation |-> 0]}

FpTracks ==
    {[stroke_width |-> 1, layer_id |-> 3, points |-> <<<<-10, -10>>, <<10, -10>>, <<10, 10>>>>],
     [stroke_width |-> 1, layer_id |-> 13, points |-> <<<<0, 0>>, <<1000, 0>>, <<0, 5>>>>],
     [stroke_width |-> 2, layer_id |-> 1, points |-> <<<<0, 0>>, <<5, 5>>>>],
     [stroke_width |-> 1, layer_id |-> 7, points |-> <<<<0, 0>>, <<3, 0>>>>],
     [stroke_width |-> 1, layer_id |-> 4, points |-> <<<<1, 1>>>>]}

FpCircles ==
    {[layer_id |-> 3, stroke_width |-> 1, center_x |-> 0, center_y |-> 0, radius |-> 4],
     [layer_id |-> 13, stroke_width |-> 1, center_x |-> 0, center_y |-> 0, radius |-> 4],
     [layer_id |-> 1, stroke_width |-> 1, center_x |-> 2, center_y |-> 2, radius |-> 197],
     [layer_id |-> 4, stroke_width |-> 1, center_x |-> 560, center_y |-> 560, radius |-> 3],
     [layer_id |-> 2, stroke_width |-> 1, center_x |-> 600, center_y |-> 0, radius |-> 3]}

FpTexts ==
    {[text_type |-> "P", center_x |-> 0, center_y |-> -5, rotation |-> 0, layer_id |-> 3,
      text |-> "val"],
     [text_type |-> "N", center_x |-> 0, center_y |-> 5, rotation |-> 0, layer_id |-> 13,
      text |-> "ref"],
     [text_type |-> "L", center_x |-> 30, center_y |-> 2, rotation |-> 90, layer_id |-> 15,
      text |-> "note"]}

FpBboxes == {<<0, 0>>, <<400, 300>>}

\* How many pads, tracks, circles and texts: at most MaxShapes in all.
FpSplits ==
    {s \in (0..MaxShapes) \X (0..MaxShapes) \X (0..MaxShapes) \X (0..MaxShapes) :
        s[1] + s[2] + s[3] + s[4] <= MaxShapes}

EeFootprints ==
    UNION {{[info |-> [name |-> "TEST_PAD"], bbox |-> b,
             pads |-> ps, tracks |-> ts, circles |-> cs, texts |-> xs] :
                b \in FpBboxes,
                ps \in [1..s[1] -> FpPads], ts \in [1..s[2] -> FpTracks],
                cs \in [1..s[3] -> FpCircles], xs \in [1..s[4] -> FpTexts]} :
           s \in FpSplits}

\* Footprints of one pad and one track on the same layer, over all layer ids,
\* the pad surface-mounted or drilled.
LayerIds == (-MaxLayerId..MaxLayerId) \cup {I32_MIN, I32_MAX}

LayerProbes ==
    {[info |-> [name |-> "TEST_PAD"], bbox |-> <<0, 0>>,
      pads |-> <<[shape |-> "RECT", center_x |-> 0, center_y |-> 0, width |-> 5, height |-> 2,
                  layer_id |-> id, number |-> "1", hole_radius |-> hole, hole_length |-> 0,
                  rotation |-> 0]>>,
      tracks |-> <<[stroke_width |-> 1, layer_id |-> id, points |-> <<<<0, 0>>, <<5, 5>>>>]>>,
      circles |-> <<>>, texts |-> <<>>] :
        id \in LayerIds, hole \in {0, 2}}

KiModels ==
    {None,
     Some([name |-> "MODEL", wrl_data |-> None, step_data |-> None,
           offset |-> <<0, 0, 0>>, scale |-> <<1, 1, 1>>, rotate |-> <<0, 0, 0>>])}

(***************************************************************************)
(* Text of the shape grammar.  A shape line is a string; the decoders look *)
(* at its characters.                                                      *)
(***************************************************************************)
RECURSIVE Str(_)
\* The string of a sequence of characters.
Str(cs) == IF cs = <<>> THEN "" ELSE Head(cs) \o Str(Tail(cs))

\* The first place at or after i where pat occurs in cs, or 0.
RECURSIVE FindFrom(_, _, _)
FindFrom(cs, pat, i) ==
    IF i + Len(pat) - 1 > Len(cs) THEN 0
    ELSE IF IsPrefixAt(pat, cs, i) THEN i
    ELSE FindFrom(cs, pat, i + 1)

\* str::split(pat): the pieces between the occurrences of pat, left to right;
\* a text without pat is its only piece.
RECURSIVE Split(_, _)
Split(cs, pat) ==
    LET i == FindFrom(cs, pat, 1)
    IN  IF i = 0 THEN <<cs>>
        ELSE <<SubSeq(cs, 1, i - 1)>> \o Split(SubSeq(cs, i + Len(pat), Len(cs)), pat)

IsNonEmpty(cs) == cs # <<>>

\* str::split_whitespace: the maximal runs of characters that are not whitespace.
RECURSIVE SplitWhitespaceFrom(_, _, _)
SplitWhitespaceFrom(cs, i, word) ==
    IF i > Len(cs) THEN (IF word = <<>> THEN <<>> ELSE <<word>>)
    ELSE IF cs[i] \in Whitespace
    THEN (IF word = <<>> THEN <<>> ELSE <<word>>) \o SplitWhitespaceFrom(cs, i + 1, <<>>)
    ELSE SplitWhitespaceFrom(cs, i + 1, Append(word, cs[i]))

split_whitespace(cs) == SplitWhitespaceFrom(cs, 1, <<>>)

parse_raw_line(line) == Split(line, <<"~">>)

(***************************************************************************)
(* str::parse.  A parsed f32 is an integer number of thousandths.  The     *)
(* grammar modelled: an optional sign, digits with at most one point and   *)
(* at most three digits after it; for i32 an optional sign and digits.     *)
(* Exponents, "inf" and "NaN" are not among the inputs of the model.       *)
(***************************************************************************)
Digits == <<"0", "1", "2", "3", "4", "5", "6", "7", "8", "9">>
IsDigit(c) == \E d \in 1..10 : Digits[d] = c
DigitVal(c) == (CHOOSE d \in 1..10 : Digits[d] = c) - 1

AllDigits(cs) == \A i \in 1..Len(cs) : IsDigit(cs[i])

RECURSIVE NatVal(_)
NatVal(cs) == IF cs = <<>> THEN 0 ELSE NatVal(SubSeq(cs, 1, Len(cs) - 1)) * 10 + DigitVal(cs[Len(cs)])

Unsigned(cs) == IF cs # <<>> /\ cs[1] \in {"+", "-"} THEN Tail(cs) ELSE cs
SignOf(cs) == IF cs # <<>> /\ cs[1] = "-" THEN -1 ELSE 1

Err == [ok |-> FALSE]
Ok(v) == [ok |-> TRUE, val |-> v]

ParseI32(cs) ==
    LET body == Unsigned(cs)
    IN  IF body # <<>> /\ AllDigits(body) /\ Len(body) <= 9
        THEN Ok(SignOf(cs) * NatVal(body)) ELSE Err

ParseF32(cs) ==
    LET body == Unsigned(cs)
        parts == Split(body, <<".">>)
        int == parts[1]
        frac == IF Len(parts) = 2 THEN parts[2] ELSE <<>>
    IN  IF /\ Len(parts) <= 2
           /\ AllDigits(int) /\ AllDigits(frac)
           /\ int # <<>> \/ frac # <<>>
           /\ Len(int) <= 5 /\ Len(frac) <= 3
        THEN Ok(SignOf(cs) * (NatVal(int) * 1000
                + NatVal(frac \o [i \in 1..(3 - Len(frac)) |-> "0"])))
        ELSE Err

unwrap_or(res, default) == IF res.ok THEN res.val ELSE default

(***************************************************************************)
(* The payload: the part of the JSON tree the decoders read.  A JSON value *)
(* is [t |-> "null"], [t |-> "number"], [t |-> "string", s |-> text] or    *)
(* [t |-> "array", items |-> values].                                      *)
(***************************************************************************)
JNull == [t |-> "null"]
JNumber == [t |-> "number"]
JString(s) == [t |-> "string", s |-> s]
JArray(items) == [t |-> "array", items |-> items]

\* Value::as_str().unwrap_or(default), as characters.
as_str_or(v, default) == IF v.t = "string" THEN Chars(v.s) ELSE Chars(default)

\* dataStr.head.x / y: parsed as f32, 0.0 when absent or unparsable.
BboxOf(head) ==
    <<unwrap_or(ParseF32(as_str_or(head.x, "0")), 0),
      unwrap_or(ParseF32(as_str_or(head.y, "0")), 0)>>

(***************************************************************************)
(* importer.rs: import_symbol.                                             *)
(***************************************************************************)
\* shape_str.starts_with('P') && shape_str.contains("^^")
IsPinLine(shape_str) == StartsWith(shape_str, <<"P">>) /\ Contains(shape_str, <<"^", "^">>)

\* The pins one shape line adds: none or one.
PinsOfLine(shape_str) ==
    LET segments == Split(shape_str, <<"^", "^">>)
    IN  IF Len(segments) >= 4
        THEN LET settings == parse_raw_line(segments[1])
                 path == parse_raw_line(segments[3])
                 name_data == parse_raw_line(segments[4])
             IN  IF Len(settings) > 7 /\ Len(name_data) > 5 /\ Len(path) > 1
                 THEN LET path_commands == split_whitespace(path[2])
                          last == IF path_commands = <<>> THEN <<"0">>
                                  ELSE path_commands[Len(path_commands)]
                      IN  <<[number     |-> Str(settings[4]),
                             name       |-> Str(name_data[5]),
                             pos_x      |-> unwrap_or(ParseF32(settings[5]), 0),
                             pos_y      |-> unwrap_or(ParseF32(settings[6]), 0),
                             rotation   |-> unwrap_or(ParseI32(settings[7]), 0),
                             pin_type   |-> Str(settings[3]),
                             pin_length |-> unwrap_or(ParseF32(last), 10000)]>>
                 ELSE <<>>
        ELSE <<>>

\* The rectangles one shape line adds: none or one.
RectsOfLine(shape_str) ==
    LET fields == parse_raw_line(shape_str)
    IN  IF fields[1] = Chars("R") /\ Len(fields) > 6
        THEN <<[x      |-> unwrap_or(ParseF32(fields[2]), 0),
                y      |-> unwrap_or(ParseF32(fields[3]), 0),
                width  |-> unwrap_or(ParseF32(fields[6]), 0),
                height |-> unwrap_or(ParseF32(fields[7]), 0)]>>
        ELSE <<>>

RECURSIVE SymbolPinsFrom(_, _)
SymbolPinsFrom(shapes, i) ==
    IF i > Len(shapes) THEN <<>>
    ELSE LET shape_str == as_str_or(shapes[i], "")
         IN  (IF IsPinLine(shape_str) THEN PinsOfLine(shape_str) ELSE <<>>)
             \o SymbolPinsFrom(shapes, i + 1)

RECURSIVE SymbolRectsFrom(_, _)
SymbolRectsFrom(shapes, i) ==
    IF i > Len(shapes) THEN <<>>
    ELSE LET shape_str == as_str_or(shapes[i], "")
         IN  (IF IsPinLine(shape_str) THEN <<>> ELSE RectsOfLine(shape_str))
             \o SymbolRectsFrom(shapes, i + 1)

import_symbol(data) ==
    IF data.dataStr.shape.t # "array"
    THEN [kind |-> "Err", error |-> "MissingData"]
    ELSE [kind |-> "Ok",
          val  |-> [info       |-> [name   |-> Str(as_str_or(data.dataStr.head.c_para.name,
                                                                  "Unknown")),
                                    prefix |-> Str(as_str_or(data.dataStr.head.c_para.pre,
                                                             "U"))],
                    bbox       |-> BboxOf(data.dataStr.head),
                    pins       |-> SymbolPinsFrom(data.dataStr.shape.items, 1),
                    rectangles |-> SymbolRectsFrom(data.dataStr.shape.items, 1)]]

(***************************************************************************)
(* importer.rs: import_footprint.                                          *)
(***************************************************************************)
\* hole_length of a PAD line: field 13, else field 12 when it parses positive.
\* Faulty variant: field 12 is never consulted.
PadHoleLengthField13Only(fields) ==
    IF Len(fields) > 13 THEN unwrap_or(ParseF32(fields[14]), 0) ELSE 0
PadHoleLength(fields) ==
    LET first == IF Len(fields) > 13 THEN unwrap_or(ParseF32(fields[14]), 0) ELSE 0
    IN  IF first = 0 /\ Len(fields) > 12
        THEN LET val == unwrap_or(ParseF32(fields[13]), 0)
             IN  IF val > 0 THEN val ELSE first
        ELSE first

PadsOfLine(fields) ==
    IF fields[1] = Chars("PAD") /\ Len(fields) > 11
    THEN <<[shape       |-> Str(fields[2]),
            center_x    |-> unwrap_or(ParseF32(fields[3]), 0),
            center_y    |-> unwrap_or(ParseF32(fields[4]), 0),
            width       |-> unwrap_or(ParseF32(fields[5]), 0),
            height      |-> unwrap_or(ParseF32(fields[6]), 0),
            layer_id    |-> unwrap_or(ParseI32(fields[7]), 0),
            number      |-> Str(fields[9]),
            hole_radius |-> unwrap_or(ParseF32(fields[10]), 0),
            hole_length |-> PadHoleLength(fields),
            rotation    |-> unwrap_or(ParseF32(fields[12]), 0)]>>
    ELSE <<>>

\* The points of a TRACK line: the values paired two by two, an unpaired last
\* value dropped.
RECURSIVE TrackPointsFrom(_, _)
TrackPointsFrom(points_str, i) ==
    IF i + 1 > Len(points_str) THEN <<>>
    ELSE <<<<unwrap_or(ParseF32(points_str[i]), 0),
             unwrap_or(ParseF32(points_str[i + 1]), 0)>>>>
         \o TrackPointsFrom(points_str, i + 2)

TracksOfLine(fields) ==
    IF fields[1] = Chars("TRACK") /\ Len(fields) > 4
    THEN <<[stroke_width |-> unwrap_or(ParseF32(fields[2]), 0),
            layer_id     |-> unwrap_or(ParseI32(fields[3]), 0),
            points       |-> TrackPointsFrom(Split(fields[5], <<" ">>), 1)]>>
    ELSE <<>>

TextsOfLine(fields) ==
    IF fields[1] = Chars("TEXT") /\ Len(fields) > 10
    THEN <<[text_type |-> Str(fields[2]),
            center_x  |-> unwrap_or(ParseF32(fields[3]), 0),
            center_y  |-> unwrap_or(ParseF32(fields[4]), 0),
            rotation  |-> unwrap_or(ParseF32(fields[6]), 0),
            layer_id  |-> unwrap_or(ParseI32(fields[8]), 0),
            text      |-> Str(fields[11])]>>
    ELSE <<>>

\* Faulty variant: a stroke width that is not a number becomes zero.
CirclesOfLineZeroStroke(fields) ==
    IF fields[1] = Chars("CIRCLE") /\ Len(fields) > 5
    THEN <<[layer_id     |-> unwrap_or(ParseI32(fields[2]), 0),
            stroke_width |-> unwrap_or(ParseF32(fields[3]), 0),
            center_x     |-> unwrap_or(ParseF32(fields[4]), 0),
            center_y     |-> unwrap_or(ParseF32(fields[5]), 0),
            radius       |-> unwrap_or(ParseF32(fields[6]), 0)]>>
    ELSE <<>>
CirclesOfLine(fields) ==
    IF fields[1] = Chars("CIRCLE") /\ Len(fields) > 5
    THEN <<[layer_id     |-> unwrap_or(ParseI32(fields[2]), 0),
            stroke_width |-> unwrap_or(ParseF32(fields[3]), 100),
            center_x     |-> unwrap_or(ParseF32(fields[4]), 0),
            center_y     |-> unwrap_or(ParseF32(fields[5]), 0),
            radius       |-> unwrap_or(ParseF32(fields[6]), 0)]>>
    ELSE <<>>

ArcsOfLine(fields) ==
    IF fields[1] = Chars("ARC") /\ Len(fields) > 3
    THEN <<[layer_id     |-> unwrap_or(ParseI32(fields[2]), 0),
            stroke_width |-> unwrap_or(ParseF32(fields[3]), 100),
            path         |-> Str(fields[4])]>>
    ELSE <<>>

\* The fields of every shape line, a value that is no string being the empty
\* line.
RECURSIVE ShapeFieldsFrom(_, _)
ShapeFieldsFrom(shapes, i) ==
    IF i > Len(shapes) THEN <<>>
    ELSE <<parse_raw_line(as_str_or(shapes[i], ""))>> \o ShapeFieldsFrom(shapes, i + 1)

\* One collection of the footprint: what the fields of each line add to it, in
\* line order.
RECURSIVE FootprintPadsFrom(_, _)
FootprintPadsFrom(lines, i) ==
    IF i > Len(lines) THEN <<>>
    ELSE PadsOfLine(lines[i])
         \o FootprintPadsFrom(lines, i + 1)

RECURSIVE FootprintTracksFrom(_, _)
FootprintTracksFrom(lines, i) ==
    IF i > Len(lines) THEN <<>>
    ELSE TracksOfLine(lines[i])
         \o FootprintTracksFrom(lines, i + 1)

RECURSIVE FootprintTextsFrom(_, _)
FootprintTextsFrom(lines, i) ==
    IF i > Len(lines) THEN <<>>
    ELSE TextsOfLine(lines[i])
         \o FootprintTextsFrom(lines, i + 1)

RECURSIVE FootprintCirclesFrom(_, _)
FootprintCirclesFrom(lines, i) ==
    IF i > Len(lines) THEN <<>>
    ELSE CirclesOfLine(lines[i])
         \o FootprintCirclesFrom(lines, i + 1)

RECURSIVE FootprintArcsFrom(_, _)
FootprintArcsFrom(lines, i) ==
    IF i > Len(lines) THEN <<>>
    ELSE ArcsOfLine(lines[i])
         \o FootprintArcsFrom(lines, i + 1)

import_footprint(data) ==
    IF data.packageDetail.dataStr.shape.t # "array"
    THEN [kind |-> "Err", error |-> "MissingData"]
    ELSE LET lines == ShapeFieldsFrom(data.packageDetail.dataStr.shape.items, 1)
         IN  [kind |-> "Ok",
              val  |-> [info    |-> [name |-> Str(as_str_or(data.packageDetail.title,
                                                             "UnknownFootprint"))],
                        bbox    |-> BboxOf(data.packageDetail.dataStr.head),
                        pads    |-> FootprintPadsFrom(lines, 1),
                        tracks  |-> FootprintTracksFrom(lines, 1),
                        texts   |-> FootprintTextsFrom(lines, 1),
                        circles |-> FootprintCirclesFrom(lines, 1),
                        arcs    |-> FootprintArcsFrom(lines, 1)]]

(***************************************************************************)
(* importer.rs: import_3d_model_info.                                      *)
(***************************************************************************)
\* serde_json::from_str::<SvgNode>: the texts of the model that are JSON
\* objects with the strings attrs.uuid and attrs.title, and what they hold.
\* Every other text is refused.
SvgNodeTexts ==
    {"{\"attrs\":{\"uuid\":\"u1\",\"title\":\"M1\"}}",
     "{\"attrs\":{\"title\":\"M2\",\"uuid\":\"u2\",\"c_origin\":\"0,0\"}}"}

SvgNodeOf(text) ==
    IF text = "{\"attrs\":{\"uuid\":\"u1\",\"title\":\"M1\"}}"
    THEN [attrs |-> [uuid |-> "u1", title |-> "M1"]]
    ELSE [attrs |-> [uuid |-> "u2", title |-> "M2"]]

serde_json_from_str(json_part) ==
    IF Str(json_part) \in SvgNodeTexts THEN Ok(SvgNodeOf(Str(json_part))) ELSE Err

\* The scan from shape i on: the first line that starts with "SVGNODE~" decides.
RECURSIVE ModelInfoFrom(_, _)
ModelInfoFrom(shapes, i) ==
    IF i > Len(shapes) THEN [kind |-> "Ok", val |-> None]
    ELSE IF shapes[i].t = "string" /\ StartsWith(Chars(shapes[i].s), Chars("SVGNODE~"))
    THEN LET shape_str == Chars(shapes[i].s)
             json_part == SubSeq(shape_str, FindFrom(shape_str, <<"~">>, 1) + 1, Len(shape_str))
             svg_node == serde_json_from_str(json_part)
         IN  IF svg_node.ok
             THEN [kind |-> "Ok",
                   val  |-> Some([name    |-> svg_node.val.attrs.title,
                                  uuid    |-> svg_node.val.attrs.uuid,
                                  raw_obj |-> None,
                                  step    |-> None])]
             ELSE [kind |-> "Err", error |-> "JsonError"]
    ELSE ModelInfoFrom(shapes, i + 1)

import_3d_model_info(data) ==
    IF data.packageDetail.dataStr.shape.t # "array"
    THEN [kind |-> "Err", error |-> "MissingData"]
    ELSE ModelInfoFrom(data.packageDetail.dataStr.shape.items, 1)

(***************************************************************************)
(* Payloads of the decoders.                                               *)
(***************************************************************************)
SymbolShapeValues ==
    {JString("P~show~1~1~390~300~180~gge5^^390~300^^M 390 300 h 10~#880000^^1~394~304~0~VCC~start"),
     JString("PL~show~0~7~395~305~90~gge9^^395~305^^M 395 305 v 20~#880000^^1~394~304~0~NC~start"),
     JString("P~show~x~2~a~~b~gge6^^400~300^^M~#880000^^1~394~304~0~~RST~start"),
     JString("P~show~0~3~400~310~0~gge7^^400~310^^short"),
     JString("R~395~295~2~2~10~10~#880000~1~0~none~gge2"),
     JString("R~395~y~~~w~10"),
     JString("R~395~295~2~2~10"),
     JString("E~400~300~5~5~#880000~1~0~none~gge3"),
     JNumber}

FootprintShapeValues ==
    {JString("PAD~RECT~400~300~5~2~1~~1~0~~0~gge10~0~~Y"),
     JString("PAD~OVAL~420~300~6~8~11~GND~2~1.5~~90~gge11~4"),
     JString("PAD~ELLIPSE~410~300.5~6~6~11~~3~2~~270~3.5"),
     JString("PAD~ELLIPSE~x~300~6~~y~~~r~~"),
     JString("PAD~RECT~400~300~5~2~1~~1~0~"),
     JString("PAD~RECT~400~300~5~2~1~~1~0~~0~7~0"),
     JString("PAD~OVAL~400~300~5~2~11~~2~1~~0~2.5~len"),
     JString("PAD~OVAL~400~300~5~2~11~~2~1~~0~-2~"),
     JString("TRACK~1~3~~390 290 410 290 410"),
     JString("TRACK~w~l~~1 a  2"),
     JString("TEXT~N~a~b~0.8~r~0~l~~4.5~REF"),
     JString("ARC~l~~M 0 0"),
     JString("TEXT~P~400~280~0.8~0~0~3~~4.5~C1~M 0 0~~gge12"),
     JString("CIRCLE~3~w~400~300~2.5~gge13"),
     JString("ARC~3~1~M 0 0 A 1 1 0 0 1 2 2~~gge14"),
     JString("SOLIDREGION~99~~M 0 0 L 1 1 Z~solid~gge15"),
     JString("SVGNODE~{\"attrs\":{\"uuid\":\"u1\",\"title\":\"M1\"}}"),
     JString("SVGNODE~{\"attrs\":{\"uuid\":"),
     JNull}

\* A shape entry: absent, not an array, or an array of at most n values.
ShapeEntries(values, n) ==
    {JNull, JString("none")} \cup {JArray(items) : items \in SeqsUpTo(values, n)}

Heads ==
    {[x |-> JNull, y |-> JNull, c_para |-> [name |-> JNull, pre |-> JNull]],
     [x |-> JString("400"), y |-> JString("3e"),
      c_para |-> [name |-> JString("TEST_R"), pre |-> JString("R")]]}

\* Either the symbol's shapes vary beside one footprint, or the footprint's
\* shapes beside one symbol.
\* The heads that go with a shape entry: both with an entry of at most one
\* line, the one with texts with a longer array.
HeadsFor(s) ==
    IF s.t = "array" /\ Len(s.items) > 1 THEN {h \in Heads : h.x.t = "string"} ELSE Heads

PayloadsUpTo(n) ==
    UNION {{[dataStr |-> [head |-> h, shape |-> s],
             packageDetail |-> [title |-> JString("0805"),
                                dataStr |-> [head |-> h, shape |-> JArray(<<>>)]]] :
                h \in HeadsFor(s)} : s \in ShapeEntries(SymbolShapeValues, n)}
    \cup
    UNION {{[dataStr |-> [head |-> h, shape |-> JArray(<<>>)],
             packageDetail |-> [title |-> JNull,
                                dataStr |-> [head |-> h, shape |-> s]]] :
                h \in HeadsFor(s)} : s \in ShapeEntries(FootprintShapeValues, n)}

Payloads == PayloadsUpTo(MaxLines)

(***************************************************************************)
(* converter.rs: convert_3d_model.  The mesh text is a sequence of         *)
(* characters; a vertex coordinate is parsed to thousandths, scaled by     *)
(* 0.254 * 1.55 exactly, and written with four decimals.                   *)
(***************************************************************************)
StripCr(line) ==
    IF line # <<>> /\ line[Len(line)] = "\r" THEN SubSeq(line, 1, Len(line) - 1) ELSE line

\* str::lines: the pieces between line feeds, without the empty piece after a
\* final line feed, each without its trailing carriage return.
Lines(cs) ==
    LET pieces == Split(cs, <<"\n">>)
        kept == IF pieces[Len(pieces)] = <<>>
                THEN SubSeq(pieces, 1, Len(pieces) - 1) ELSE pieces
    IN  [i \in 1..Len(kept) |-> StripCr(kept[i])]

\* str::parse::<usize>: an optional "+" and digits.
ParseUsize(cs) ==
    LET body == IF cs # <<>> /\ cs[1] = "+" THEN Tail(cs) ELSE cs
    IN  IF body # <<>> /\ AllDigits(body) /\ Len(body) <= 9 THEN Ok(NatVal(body)) ELSE Err

\* Faulty variant: every tag that begins with "v" is a vertex tag.
VertexTagPrefix(word) == StartsWith(word, <<"v">>)
\* match parts[0] { "v" => ... }
VertexTag(word) == word = <<"v">>

FaceTag(word) == word = <<"f">>

\* v * 0.254 * 1.55 of a value in thousandths, in units of 10^-8.
ScaleVertex(v) == v * 254 * 155

\* The vertices one line adds: none or one.
VerticesOfLine(parts) ==
    IF parts # <<>> /\ VertexTag(parts[1]) /\ Len(parts) >= 4
    THEN <<<<ScaleVertex(unwrap_or(ParseF32(parts[2]), 0)),
             ScaleVertex(unwrap_or(ParseF32(parts[3]), 0)),
             ScaleVertex(unwrap_or(ParseF32(parts[4]), 0))>>>>
    ELSE <<>>

\* p.split('/').next().unwrap_or("1").parse::<usize>().unwrap_or(1) - 1; the
\* subtraction from 0 is -1 here and settled in convert_3d_model.
FaceIndex(p) == unwrap_or(ParseUsize(Split(p, <<"/">>)[1]), 1) - 1

\* The faces one line adds: none or one.
FacesOfLine(parts) ==
    IF parts # <<>> /\ ~VertexTag(parts[1]) /\ FaceTag(parts[1]) /\ Len(parts) >= 4
    THEN <<[k \in 1..(Len(parts) - 1) |-> FaceIndex(parts[k + 1])]>>
    ELSE <<>>

RECURSIVE MeshVerticesFrom(_, _)
MeshVerticesFrom(lines, i) ==
    IF i > Len(lines) THEN <<>>
    ELSE VerticesOfLine(split_whitespace(lines[i])) \o MeshVerticesFrom(lines, i + 1)

RECURSIVE MeshFacesFrom(_, _)
MeshFacesFrom(lines, i) ==
    IF i > Len(lines) THEN <<>>
    ELSE FacesOfLine(split_whitespace(lines[i])) \o MeshFacesFrom(lines, i + 1)

\* "{:.4}" of a value in units of 10^-8: the nearest multiple of 10^-4.
Fmt4(v) ==
    LET q == (Abs(v) + 5000) \div 10000
    IN  <<"%.4", IF v < 0 THEN -q ELSE q>>

\* usize::to_string; the wrapped 0 - 1 is usize::MAX.
UsizeToString(i) == IF i = -1 THEN "18446744073709551615" ELSE ToString(i)

WrlHead ==
    <<"#VRML V2.0 utf8\n",
      "Shape {\n",
      "  appearance Appearance {\n",
      "    material Material { diffuseColor 0.5 0.5 0.5 }\n",
      "  }\n",
      "  geometry IndexedFaceSet {\n",
      "    coord Coordinate {\n",
      "      point [\n">>

WrlMiddle == <<"      ]\n", "    }\n", "    coordIndex [\n">>

WrlTail == <<"    ]\n", "  }\n", "}\n">>

VertexLine(v) == <<"        ", Fmt4(v[1]), " ", Fmt4(v[2]), " ", Fmt4(v[3]), ",\n">>

FaceLine(f) ==
    <<"      ">> \o Join([k \in 1..Len(f) |-> UsizeToString(f[k])], ", ") \o <<", -1,\n">>

\* The text written from the vertices and the faces, line by line.
WrlText(vertices, faces) ==
    WrlHead \o [i \in 1..Len(vertices) |-> VertexLine(vertices[i])]
    \o WrlMiddle \o [i \in 1..Len(faces) |-> FaceLine(faces[i])]
    \o WrlTail

\* checks: the build traps integer overflow, and 0 - 1 on a face index panics.
convert_3d_model(ee_model, checks) ==
    LET lines == Lines(ee_model.raw_obj.val)
        vertices == MeshVerticesFrom(lines, 1)
        faces == MeshFacesFrom(lines, 1)
        underflow == \E i \in 1..Len(faces) : \E k \in 1..Len(faces[i]) : faces[i][k] = -1
    IN  IF ee_model.raw_obj.some /\ checks /\ underflow
        THEN [kind |-> "Panic"]
        ELSE [kind |-> "Ok",
              val  |-> [name      |-> ee_model.name,
                        wrl_data  |-> IF ee_model.raw_obj.some
                                      THEN Some(WrlText(vertices, faces)) ELSE None,
                        step_data |-> ee_model.step,
                        offset    |-> <<0, 0, 0>>,
                        scale     |-> <<1, 1, 1>>,
                        rotate    |-> <<0, 0, 0>>]]

\* Mesh texts: at most MaxMeshLines lines, each ended by a line feed but
\* possibly the last.
MeshLines ==
    {"v 1.0 -2.5 0.001", "v 1 2", "vn 0 0 1", "v x 3 4 5\r",
     "f 1//1 2//2 3//3", "f 0 1 2", "f 1 2", "f a/1 +2 3 4",
     "# v f", "", "  \t", "usemtl f"}

RECURSIVE MeshTextOf(_, _)
MeshTextOf(lines, last_feed) ==
    IF lines = <<>> THEN <<>>
    ELSE IF Len(lines) = 1
    THEN Chars(lines[1]) \o (IF last_feed THEN <<"\n">> ELSE <<>>)
    ELSE Chars(lines[1]) \o <<"\n">> \o MeshTextOf(Tail(lines), last_feed)

MeshTexts ==
    {MeshTextOf(lines, last_feed) :
        lines \in SeqsUpTo(MeshLines, MaxMeshLines), last_feed \in BOOLEAN}

Ee3dModels ==
    {[name |-> "M1", uuid |-> "u1", raw_obj |-> raw_obj, step |-> step] :
        raw_obj \in {None} \cup {Some(text) : text \in MeshTexts},
        step \in {None, Some("STEP")}}

(***************************************************************************)
(* kicad_models.rs: KiSymbol::to_kicad_lib_entry, as a sequence of tokens  *)
(* like to_kicad_mod_entry.                                                *)
(***************************************************************************)
SymHeaderLine(sym) ==
    <<"(", "symbol \"", sym.name, "\" ", "(", "in_bom yes", ")", " ",
      "(", "on_board yes", ")", "\n">>

\* One property line; at is the text of its (at ...) list, hide whether the
\* effects list ends with the word hide.
PropertyLine(key, value, id, at, hide) ==
    <<"  ", "(", "property \"", key, "\" \"", value, "\" ",
      "(", id, ")", " ", "(", at, ")", " ",
      "(", "effects ", "(", "font ", "(", "size 1.27 1.27", ")", ")">>
    \o (IF hide THEN <<" hide">> ELSE <<>>) \o <<")", ")", "\n">>

\* bool rendered with {}.
BoolText(b) == IF b THEN "true" ELSE "false"

PropertyLines(sym) ==
    PropertyLine("Reference", sym.reference, "id 0", "at 0 2.54 0", FALSE)
    \o PropertyLine("Value", sym.name, "id 1", "at 0 -2.54 0", FALSE)
    \o PropertyLine("Footprint", sym.footprint, "id 2", "at 0 0 0", TRUE)
    \o PropertyLine("Datasheet", sym.datasheet, "id 3", "at 0 0 0", TRUE)
    \o (IF sym.lcsc_part.some
        THEN PropertyLine("LCSC Part", sym.lcsc_part.val, "id 4", "at 0 0 0", TRUE)
        ELSE <<>>)
    \o PropertyLine("Extended", BoolText(sym.is_extended), "id 5", "at 0 0 0", TRUE)

UnitHeaderLine(sym) == <<"  ", "(", "symbol \"", sym.name, "_1_1\"", "\n">>

RectangleLine(rect) ==
    <<"    ", "(", "rectangle ",
      "(", "start ", Num(rect.start[1]), " ", Num(rect.start[2]), ")", " ",
      "(", "end ", Num(rect.end[1]), " ", Num(rect.end[2]), ")", " ",
      "(", "stroke ", "(", "width 0.254", ")", " ", "(", "type default", ")", " ",
      "(", "color 0 0 0 0", ")", ")", " ",
      "(", "fill ", "(", "type background", ")", ")", ")", "\n">>

pin_type_str(pin_type) ==
    CASE pin_type = "Input" -> "input"
      [] pin_type = "Output" -> "output"
      [] pin_type = "Bidirectional" -> "bidirectional"
      [] pin_type = "PowerIn" -> "power_in"
      [] pin_type = "Passive" -> "passive"
      [] OTHER -> "unspecified"

\* A name that starts with '~' is written "~{rest}", any other in quotes.
pin_name(name) ==
    IF StartsWith(Chars(name), <<"~">>)
    THEN <<"\"~{", Str(Tail(Chars(name))), "}\"">>
    ELSE <<"\"", name, "\"">>

PinBlock(pin) ==
    <<"    ", "(", "pin ", pin_type_str(pin.pin_type), " line ",
      "(", "at ", Num(pin.pos[1]), " ", Num(pin.pos[2]), " ", Num(pin.rotation), ")", " ",
      "(", "length ", Num(pin.length), ")", "\n",
      "      ", "(", "name ">> \o pin_name(pin.name) \o <<" ",
      "(", "effects ", "(", "font ", "(", "size 1.27 1.27", ")", ")", ")", ")", "\n",
      "      ", "(", "number \"", pin.number, "\" ",
      "(", "effects ", "(", "font ", "(", "size 1.27 1.27", ")", ")", ")", ")", "\n",
      "    ", ")", "\n">>

RECURSIVE RectangleLines(_)
RectangleLines(rects) ==
    IF rects = <<>> THEN <<>> ELSE RectangleLine(Head(rects)) \o RectangleLines(Tail(rects))

RECURSIVE PinBlocks(_)
PinBlocks(pins) ==
    IF pins = <<>> THEN <<>> ELSE PinBlock(Head(pins)) \o PinBlocks(Tail(pins))

\* Faulty variant: only the unit is closed.
SymbolCloseUnitOnly(sym) == <<"  ", ")", "\n">>
\* writeln!("  )\n)"): closes the unit and the symbol.
SymbolClose(sym) == <<"  ", ")", "\n", ")", "\n">>

to_kicad_lib_entry(sym) ==
    SymHeaderLine(sym)
    \o PropertyLines(sym)
    \o UnitHeaderLine(sym)
    \o RectangleLines(sym.rectangles)
    \o PinBlocks(sym.pins)
    \o SymbolClose(sym)

Idle == [kind |-> "Idle"]

(***************************************************************************)
(* lib.rs: import_component, with api.rs and file_writer.rs.  The remote   *)
(* is its answers; the output directory is the directories made, the names *)
(* of the entries of the symbol library, the paths of the files written,   *)
(* and a log of the operations in the order they were made.  The file      *)
(* system does not fail.  Of the contents of the files only the model      *)
(* block of the footprint is kept: a converted symbol or footprint counts  *)
(* here by its name and by whether its conversion returned.                *)
(***************************************************************************)
\* get_cad_data_of_component: the answer of the component endpoint decides.
\* Faulty variant: the success flag is not looked at.
get_cad_data_ignoring_success(res) ==
    IF ~res.sent THEN [kind |-> "Err", error |-> "ApiError"]
    ELSE IF res.result.some THEN [kind |-> "Ok", val |-> res.result.val]
    ELSE [kind |-> "Err", error |-> "MissingData"]
get_cad_data_of_component(res) ==
    IF ~res.sent THEN [kind |-> "Err", error |-> "ApiError"]
    ELSE IF res.success
    THEN (IF res.result.some THEN [kind |-> "Ok", val |-> res.result.val]
          ELSE [kind |-> "Err", error |-> "MissingData"])
    ELSE [kind |-> "Err", error |-> "MissingData"]

\* setup_directories: the three create_dir_all calls, in order.
LibraryDirs == <<"footprints.pretty", "symbols", "3dmodels.3dshapes">>

\* The duplicate check of add_symbol on a library of entries written by
\* to_kicad_lib_entry: the pattern ( symbol "NAME" ... ) finds the head of the
\* entry NAME, and the unit head of an entry whose name followed by _1_1 is NAME.
LibraryHas(lib, name) ==
    \E i \in 1..Len(lib) : lib[i] = name \/ lib[i] \o "_1_1" = name

\* add_symbol: skipped when the check finds the name, else the entry goes last.
add_symbol(lib, name) == IF LibraryHas(lib, name) THEN lib ELSE Append(lib, name)

\* add_footprint: the path written.
FootprintPath(name) == "footprints.pretty/" \o name \o ".kicad_mod"

\* add_3d_model: the paths written, the .wrl file before the .step file.
ModelPaths(model) ==
    (IF model.wrl_data.some THEN <<"3dmodels.3dshapes/" \o model.name \o ".wrl">> ELSE <<>>)
    \o (IF model.step_data.some THEN <<"3dmodels.3dshapes/" \o model.name \o ".step">> ELSE <<>>)

Range(seq) == {seq[i] : i \in 1..Len(seq)}

\* What the mesh endpoint and the solid endpoint can answer.
MeshAnswers ==
    {[kind |-> "Err", error |-> "MissingData"],
     [kind |-> "Ok", val |-> Chars("v 1.0 -2.5 0.001\nf 1//1 2//2 3//3\n")],
     [kind |-> "Ok", val |-> Chars("f 0 1 2")]}
SolidAnswers == {[kind |-> "Err", error |-> "MissingData"], [kind |-> "Ok", val |-> "STEP"]}

\* Result::ok
ok(res) == IF res.kind = "Ok" THEN Some(res.val) ELSE None

\* The payloads the component endpoint answers with.
CadPayloads == PayloadsUpTo(MaxCadLines)

\* The answers of the component endpoint: no answer, or success and result.
ApiResponses ==
    {[sent |-> FALSE, success |-> FALSE, result |-> None]}
    \cup {[sent |-> TRUE, success |-> s, result |-> r] :
            s \in BOOLEAN, r \in {None} \cup {Some(p) : p \in CadPayloads}}

\* The library file before the call: missing, or holding an entry.
Libraries == {<<>>, <<"TEST_R">>}

(***************************************************************************)
(* Specification of convert_symbol.                                        *)
(***************************************************************************)
vars == <<pc, overflowChecks, symVars, fpVars, impVars, meshVars, compVars, libVars>>

SymIdle == eeSymbol = Idle /\ symResult = Idle /\ symText = <<>>
FpIdle == eeFootprint = Idle /\ kiModel = None /\ fpResult = Idle /\ modText = <<>>
ImpIdle == payload = Idle /\ impSymbol = Idle /\ impFootprint = Idle /\ impModelInfo = Idle
MeshIdle == eeModel = Idle /\ meshResult = Idle
LibIdle == libFile = None /\ libCalls = <<>>
CompIdle ==
    /\ apiResponse = Idle /\ fetches = Idle /\ fsDirs = {} /\ libSymbols = <<>>
    /\ fsFiles = {} /\ fsLog = <<>> /\ compResult = Idle

InitSym ==
    /\ pc = "sym_start"
    /\ LibIdle
    /\ overflowChecks \in BOOLEAN
    /\ eeSymbol \in EeSymbols
    /\ symResult = Idle
    /\ symText = <<>>
    /\ FpIdle /\ ImpIdle /\ MeshIdle /\ CompIdle

ConvertSymbol ==
    /\ pc = "sym_start"
    /\ symResult' = convert_symbol(eeSymbol, overflowChecks)
    /\ pc' = "sym_converted"
    /\ UNCHANGED <<overflowChecks, libVars, eeSymbol, symText, fpVars, impVars, meshVars, compVars>>

WriteSymbol ==
    /\ pc = "sym_converted"
    /\ symResult.kind = "Ok"
    /\ symText' = to_kicad_lib_entry(symResult.val)
    /\ pc' = "sym_written"
    /\ UNCHANGED <<overflowChecks, libVars, eeSymbol, symResult, fpVars, impVars, meshVars, compVars>>

NextSym == ConvertSymbol \/ WriteSymbol

SpecSym == InitSym /\ [][NextSym]_vars

(***************************************************************************)
(* Specification of convert_footprint followed by to_kicad_mod_entry.      *)
(***************************************************************************)
InitFp ==
    /\ pc = "fp_start"
    /\ LibIdle
    /\ overflowChecks = FALSE
    /\ eeFootprint \in EeFootprints
    /\ kiModel \in KiModels
    /\ fpResult = Idle
    /\ modText = <<>>
    /\ SymIdle /\ ImpIdle /\ MeshIdle /\ CompIdle

ConvertFootprint ==
    /\ pc = "fp_start"
    /\ fpResult' = convert_footprint(eeFootprint, kiModel)
    /\ pc' = "fp_converted"
    /\ UNCHANGED <<overflowChecks, libVars, eeFootprint, kiModel, modText, symVars, impVars, meshVars, compVars>>

WriteFootprint ==
    /\ pc = "fp_converted"
    /\ fpResult.kind = "Ok"
    /\ modText' = to_kicad_mod_entry(fpResult.val)
    /\ pc' = "fp_written"
    /\ UNCHANGED <<overflowChecks, libVars, eeFootprint, kiModel, fpResult, symVars, impVars, meshVars, compVars>>

NextFp == ConvertFootprint \/ WriteFootprint

SpecFp == InitFp /\ [][NextFp]_vars

(***************************************************************************)
(* Specification of map_layer: convert_footprint on the footprints of one  *)
(* pad and one track, over all layer ids.                                  *)
(***************************************************************************)
InitLayer ==
    /\ pc = "fp_start"
    /\ LibIdle
    /\ overflowChecks = FALSE
    /\ eeFootprint \in LayerProbes
    /\ kiModel \in KiModels
    /\ fpResult = Idle
    /\ modText = <<>>
    /\ SymIdle /\ ImpIdle /\ MeshIdle /\ CompIdle

SpecLayer == InitLayer /\ [][NextFp]_vars

(***************************************************************************)
(* Specification of the two writers: a symbol or a footprint is converted  *)
(* and written.                                                            *)
(***************************************************************************)
InitOut == InitSym \/ InitFp

NextOut == NextSym \/ NextFp

SpecOut == InitOut /\ [][NextOut]_vars

(***************************************************************************)
(* Specification of the decoders: the three calls on one payload, each     *)
(* made once, in any order.                                                *)
(***************************************************************************)
InitImp ==
    /\ pc = "imp"
    /\ LibIdle
    /\ overflowChecks = FALSE
    /\ payload \in Payloads
    /\ impSymbol = Idle /\ impFootprint = Idle /\ impModelInfo = Idle
    /\ SymIdle /\ FpIdle /\ MeshIdle /\ CompIdle

ImportSymbol ==
    /\ pc = "imp" /\ impSymbol = Idle
    /\ impSymbol' = import_symbol(payload)
    /\ UNCHANGED <<pc, overflowChecks, libVars, payload, impFootprint, impModelInfo, symVars, fpVars, meshVars, compVars>>

ImportFootprint ==
    /\ pc = "imp" /\ impFootprint = Idle
    /\ impFootprint' = import_footprint(payload)
    /\ UNCHANGED <<pc, overflowChecks, libVars, payload, impSymbol, impModelInfo, symVars, fpVars, meshVars, compVars>>

Import3dModelInfo ==
    /\ pc = "imp" /\ impModelInfo = Idle
    /\ impModelInfo' = import_3d_model_info(payload)
    /\ UNCHANGED <<pc, overflowChecks, libVars, payload, impSymbol, impFootprint, symVars, fpVars, meshVars, compVars>>

NextImp == ImportSymbol \/ ImportFootprint \/ Import3dModelInfo

SpecImp == InitImp /\ [][NextImp]_vars

(***************************************************************************)
(* Specification of convert_3d_model.                                      *)
(***************************************************************************)
InitMesh ==
    /\ pc = "mesh"
    /\ LibIdle
    /\ overflowChecks \in BOOLEAN
    /\ eeModel \in Ee3dModels
    /\ meshResult = Idle
    /\ SymIdle /\ FpIdle /\ ImpIdle /\ CompIdle

Convert3dModel ==
    /\ pc = "mesh"
    /\ meshResult' = convert_3d_model(eeModel, overflowChecks)
    /\ pc' = "mesh_converted"
    /\ UNCHANGED <<overflowChecks, libVars, eeModel, symVars, fpVars, impVars, compVars>>

NextMesh == Convert3dModel

SpecMesh == InitMesh /\ [][NextMesh]_vars


(***************************************************************************)
(* Specification of import_component: one call, statement by statement;    *)
(* the two model fetches are joined and complete in either order.          *)
(***************************************************************************)
InitComp ==
    /\ pc = "comp_start"
    /\ LibIdle
    /\ overflowChecks \in BOOLEAN
    /\ apiResponse \in ApiResponses
    /\ fetches = [obj |-> Idle, step |-> Idle]
    /\ fsDirs = {}
    /\ libSymbols \in Libraries
    /\ fsFiles = {}
    /\ fsLog = <<>>
    /\ compResult = Idle
    /\ SymIdle /\ FpIdle /\ ImpIdle /\ MeshIdle

\* A fetch that has been started and has not completed.
Pending == [kind |-> "Pending"]

\* The call returns res (an error or Ok) or aborts.
Return(res) == compResult' = res /\ pc' = "comp_done"

\* kicad_lib.setup_directories()?
SetupDirectories ==
    /\ pc = "comp_start"
    /\ fsDirs' = Range(LibraryDirs)
    /\ fsLog' = fsLog \o [i \in 1..Len(LibraryDirs) |-> <<"create_dir_all", LibraryDirs[i]>>]
    /\ pc' = "comp_fetch"
    /\ UNCHANGED <<overflowChecks, libVars, apiResponse, fetches, libSymbols, fsFiles, compResult,
                   symVars, fpVars, impVars, meshVars>>

\* let cad_data = api.get_cad_data_of_component(lcsc_id).await?
GetCadData ==
    /\ pc = "comp_fetch"
    /\ LET res == get_cad_data_of_component(apiResponse)
       IN  IF res.kind = "Ok"
           THEN payload' = res.val /\ pc' = "comp_decode" /\ UNCHANGED compResult
           ELSE Return(res) /\ UNCHANGED payload
    /\ UNCHANGED <<overflowChecks, libVars, apiResponse, fetches, fsDirs, libSymbols, fsFiles, fsLog,
                   impSymbol, impFootprint, impModelInfo, symVars, fpVars, meshVars>>

\* import_symbol(&cad_data)?, convert_symbol(ee_symbol)?, import_footprint(&cad_data)?
DecodeSymbolAndFootprint ==
    /\ pc = "comp_decode"
    /\ LET ee_symbol == import_symbol(payload)
           ee_footprint == import_footprint(payload)
       IN  IF ee_symbol.kind = "Err"
           THEN Return(ee_symbol) /\ UNCHANGED <<impSymbol, impFootprint>>
           ELSE IF overflowChecks /\ RotationOverflows(ee_symbol.val)
           THEN Return([kind |-> "Panic"]) /\ impSymbol' = ee_symbol /\ UNCHANGED impFootprint
           ELSE IF ee_footprint.kind = "Err"
           THEN Return(ee_footprint) /\ impSymbol' = ee_symbol /\ UNCHANGED impFootprint
           ELSE /\ impSymbol' = ee_symbol /\ impFootprint' = ee_footprint
                /\ pc' = "comp_add_symbol" /\ UNCHANGED compResult
    /\ UNCHANGED <<overflowChecks, libVars, apiResponse, fetches, fsDirs, libSymbols, fsFiles, fsLog,
                   payload, impModelInfo, symVars, fpVars, meshVars>>

\* kicad_lib.add_symbol(&ki_symbol)?
AddSymbol ==
    /\ pc = "comp_add_symbol"
    /\ libSymbols' = add_symbol(libSymbols, impSymbol.val.info.name)
    /\ fsLog' = IF LibraryHas(libSymbols, impSymbol.val.info.name) THEN fsLog
                ELSE Append(fsLog, <<"write", "symbols/lib.kicad_sym">>)
    /\ pc' = "comp_model_info"
    /\ UNCHANGED <<overflowChecks, libVars, apiResponse, fetches, fsDirs, fsFiles, compResult,
                   symVars, fpVars, impVars, meshVars>>

\* importer::import_3d_model_info(&cad_data)?, and the start of the two fetches.
FindModel ==
    /\ pc = "comp_model_info"
    /\ LET info == import_3d_model_info(payload)
       IN  IF info.kind = "Err"
           THEN Return(info) /\ UNCHANGED <<impModelInfo, fetches, eeModel>>
           ELSE IF info.val.some
           THEN /\ impModelInfo' = info /\ eeModel' = info.val.val
                /\ fetches' = [obj |-> Pending, step |-> Pending]
                /\ pc' = "comp_join" /\ UNCHANGED compResult
           ELSE /\ impModelInfo' = info
                /\ pc' = "comp_footprint" /\ UNCHANGED <<compResult, fetches, eeModel>>
    /\ UNCHANGED <<overflowChecks, libVars, apiResponse, fsDirs, libSymbols, fsFiles, fsLog,
                   payload, impSymbol, impFootprint, meshResult, symVars, fpVars>>

\* api.get_raw_3d_model_obj(&ee_model_info.uuid) completes.
MeshFetched ==
    /\ pc = "comp_join" /\ fetches.obj = Pending
    /\ \E answer \in MeshAnswers : fetches' = [fetches EXCEPT !.obj = answer]
    /\ UNCHANGED <<pc, overflowChecks, libVars, apiResponse, fsDirs, libSymbols, fsFiles, fsLog,
                   compResult, symVars, fpVars, impVars, meshVars>>

\* api.get_step_3d_model(&ee_model_info.uuid) completes.
SolidFetched ==
    /\ pc = "comp_join" /\ fetches.step = Pending
    /\ \E answer \in SolidAnswers : fetches' = [fetches EXCEPT !.step = answer]
    /\ UNCHANGED <<pc, overflowChecks, libVars, apiResponse, fsDirs, libSymbols, fsFiles, fsLog,
                   compResult, symVars, fpVars, impVars, meshVars>>

\* Faulty variant: the join returns as soon as the mesh fetch has completed.
JoinReturnedOnMesh(f) == f.obj # Pending
\* tokio::join! returns when both fetches have completed.
JoinReturned(f) == f.obj # Pending /\ f.step # Pending

\* The join returns; raw_obj and step are set; convert_3d_model(ee_model_info)?,
\* kicad_lib.add_3d_model(&model)?
AddModel ==
    /\ pc = "comp_join" /\ JoinReturned(fetches)
    /\ LET ee_model_info == [eeModel EXCEPT !.raw_obj = ok(fetches.obj), !.step = ok(fetches.step)]
           model == convert_3d_model(ee_model_info, overflowChecks)
       IN  /\ eeModel' = ee_model_info
           /\ meshResult' = model
           /\ IF model.kind = "Ok"
              THEN /\ fsFiles' = fsFiles \cup Range(ModelPaths(model.val))
                   /\ fsLog' = fsLog \o [i \in 1..Len(ModelPaths(model.val)) |->
                                            <<"write", ModelPaths(model.val)[i]>>]
                   /\ kiModel' = Some(model.val)
                   /\ pc' = "comp_footprint" /\ UNCHANGED compResult
              ELSE Return(model) /\ UNCHANGED <<fsFiles, fsLog, kiModel>>
    /\ UNCHANGED <<overflowChecks, libVars, apiResponse, fetches, fsDirs, libSymbols,
                   eeFootprint, fpResult, modText, symVars, impVars>>

\* converter::convert_footprint(ee_footprint, ki_model)?, kicad_lib.add_footprint(&ki_footprint)?
\* modText holds the lines of the written file that do not depend on the
\* geometry: the header line, the model block and the closing line.
AddFootprint ==
    /\ pc = "comp_footprint"
    /\ fsFiles' = fsFiles \cup {FootprintPath(impFootprint.val.info.name)}
    /\ fsLog' = Append(fsLog, <<"write", FootprintPath(impFootprint.val.info.name)>>)
    /\ modText' = to_kicad_mod_entry([name     |-> impFootprint.val.info.name,
                                      texts    |-> <<>>,
                                      pads     |-> <<>>,
                                      model_3d |-> kiModel])
    /\ Return([kind |-> "Ok", val |-> <<>>])
    /\ UNCHANGED <<overflowChecks, libVars, apiResponse, fetches, fsDirs, libSymbols,
                   eeFootprint, kiModel, fpResult, symVars, impVars, meshVars>>

NextComp ==
    \/ SetupDirectories \/ GetCadData \/ DecodeSymbolAndFootprint \/ AddSymbol
    \/ FindModel \/ MeshFetched \/ SolidFetched \/ AddModel \/ AddFootprint

SpecComp == InitComp /\ [][NextComp]_vars

(***************************************************************************)
(* file_writer.rs: KicadLibrary::add_symbol on the text of the library     *)
(* file, a sequence of tokens like the entries it holds.  Every token that *)
(* can end the file is one byte long, so a seek back by the length of the  *)
(* footer drops whole tokens.                                              *)
(***************************************************************************)
KICAD_SYM_HEADER ==
    <<"(", "kicad_symbol_lib ", "(", "version 20211014", ")", " ",
      "(", "generator easyeda2kicad_rs", ")", "\n">>

KICAD_SYM_FOOTER == <<")", "\n">>

WhitespaceTokens == {" ", "  ", "    ", "      ", "\n"}

\* The quoted text that follows the word symbol of the list opened at i, or
\* None when the list is not a symbol list.
QuotedSymbolName(text, i) ==
    IF i + 3 > Len(text) \/ text[i] # "(" \/ text[i + 1] # "symbol \"" THEN None
    ELSE IF text[i + 3] = "\" " THEN Some(text[i + 2])
    ELSE Some(text[i + 2] \o "_1_1")

\* Regex \(\s*symbol\s*"NAME"\s*.*\) : a symbol list named NAME, then
\* whitespace, line feeds included, then a ")" further on the same line.
RegexIsMatch(text, name) ==
    \E i \in 1..Len(text) :
        /\ QuotedSymbolName(text, i) = Some(name)
        /\ \E j \in (i + 4)..Len(text) :
            /\ text[j] = ")"
            /\ \E k \in (i + 3)..(j - 1) :
                /\ \A w \in (i + 4)..k : \E s \in WhitespaceTokens : text[w] = s
                /\ \A c \in (k + 1)..(j - 1) : text[c] # "\n"

\* Faulty variant: the write starts at the end of the file.
SeekToEnd(text, n) == text
\* file.seek(SeekFrom::End(-n)): the text before the place of the next
\* write, which replaces everything after it.
RECURSIVE SeekFromEnd(_, _)
SeekFromEnd(text, n) ==
    IF n <= 0 \/ text = <<>> THEN text
    ELSE SeekFromEnd(SubSeq(text, 1, Len(text) - 1), n - Len(text[Len(text)]))

\* add_symbol: the file after the call and which of its three messages it
\* printed.
add_symbol_to_file(file, symbol) ==
    LET symbol_content == to_kicad_lib_entry(symbol)
    IN  IF file.some /\ RegexIsMatch(file.val, symbol.name)
        THEN [file |-> file, outcome |-> "Skipping"]
        ELSE IF ~file.some \/ file.val = <<>>
        THEN [file    |-> Some(KICAD_SYM_HEADER \o symbol_content \o KICAD_SYM_FOOTER),
              outcome |-> "Created"]
        ELSE [file    |-> Some(SeekFromEnd(file.val, Len(KICAD_SYM_FOOTER))
                               \o symbol_content \o KICAD_SYM_FOOTER),
              outcome |-> "Appended"]

\* The symbols handed to add_symbol: a name, the name of its unit and another
\* name, each with or without a rectangle.
LibNames == {"M", "M_1_1", "N"}

LibKiSymbols ==
    {[name |-> n, reference |-> "U", footprint |-> "", datasheet |-> "",
      lcsc_part |-> None, pins |-> <<>>, rectangles |-> rects, is_extended |-> FALSE] :
        n \in LibNames,
        rects \in {<<>>, <<[start |-> <<Mm(-1000), Mm(1000)>>, end |-> <<Mm(1000), Mm(-1000)>>]>>}}

(***************************************************************************)
(* Specification of add_symbol: calls one after the other on a library     *)
(* file that is missing or empty at first.                                 *)
(***************************************************************************)
InitLib ==
    /\ pc = "lib"
    /\ overflowChecks = FALSE
    /\ libFile \in {None, Some(<<>>)}
    /\ libCalls = <<>>
    /\ SymIdle /\ FpIdle /\ ImpIdle /\ MeshIdle /\ CompIdle

AddSymbolToLibrary ==
    /\ pc = "lib"
    /\ Len(libCalls) < MaxAdds
    /\ \E symbol \in LibKiSymbols :
        LET r == add_symbol_to_file(libFile, symbol)
        IN  /\ libFile' = r.file
            /\ libCalls' = Append(libCalls, [symbol |-> symbol, outcome |-> r.outcome])
    /\ UNCHANGED <<pc, overflowChecks, symVars, fpVars, impVars, meshVars, compVars>>

NextLib == AddSymbolToLibrary

SpecLib == InitLib /\ [][NextLib]_vars

(***************************************************************************)
(* Helpers of the properties.                                              *)
(***************************************************************************)
SetMin(S) == CHOOSE x \in S : \A y \in S : x <= y
SetMax(S) == CHOOSE x \in S : \A y \in S : x >= y

\* a mod 360 of mathematics for the i32 src + 180, without leaving 32 bits.
Plus180Mod360(src) == ((src % 360) + 180) % 360

\* Whether the point p lies farther than limit mm from the origin, in a
\* straight line: p[1]^2 + p[2]^2 > (limit mm)^2, computed in parts of one mm
\* so that no product leaves 32 bits.
FartherThan(p, limit) ==
    LET B == 1000 * Sub
        a1 == Abs(p[1]) \div B   b1 == Abs(p[1]) % B
        a2 == Abs(p[2]) \div B   b2 == Abs(p[2]) % B
    IN  IF a1 > limit \/ a2 > limit THEN TRUE
        ELSE LET A0 == b1 * b1 + b2 * b2
                 A1 == 2 * (a1 * b1 + a2 * b2) + (A0 \div B)
                 A2 == a1 * a1 + a2 * a2 + (A1 \div B)
             IN  \/ A2 > limit * limit
                 \/ A2 = limit * limit /\ (A1 % B > 0 \/ A0 % B > 0)

\* Whether p lies farther than limit mm from the origin along an axis.
FartherOnAnAxis(p, limit) ==
    Abs(p[1]) > limit * 1000 * Sub \/ Abs(p[2]) > limit * 1000 * Sub

RECURSIVE Count(_, _)
Count(seq, x) ==
    IF seq = <<>> THEN 0 ELSE (IF Head(seq) = x THEN 1 ELSE 0) + Count(Tail(seq), x)

\* The lines of a text that start with the tokens of prefix: a line starts
\* at the first token and after every "\n".
LinesStarting(text, prefix) ==
    Cardinality({i \in 1..Len(text) :
        /\ i = 1 \/ text[i - 1] = "\n"
        /\ IsPrefixAt(prefix, text, i)})

FpConverted == pc \in {"fp_converted", "fp_written"}

(***************************************************************************)
(* C1.  The segments of a track on a graphic layer: a segment with an      *)
(* endpoint, start or end, farther than 150 mm from the computed center is *)
(* left out, and every other segment is one Line, in point order.          *)
(* Violated: convert_footprint tests the start point only.                 *)
(***************************************************************************)
RECURSIVE C1_LinesOfTrack(_, _, _)
C1_LinesOfTrack(fp, track, i) ==
    IF i > Len(track.points) - 1 THEN <<>>
    ELSE LET start == TrackPoint(fp, track.points[i])
             end == TrackPoint(fp, track.points[i + 1])
         IN  (IF FartherThan(start, 150) \/ FartherThan(end, 150) THEN <<>>
              ELSE <<<<start, end>>>>) \o C1_LinesOfTrack(fp, track, i + 1)

RECURSIVE C1_LinesOfTracks(_, _)
C1_LinesOfTracks(fp, i) ==
    IF i > Len(fp.tracks) THEN <<>>
    ELSE (IF is_graphic_layer(map_layer(fp.tracks[i].layer_id, TRUE)[1])
          THEN C1_LinesOfTrack(fp, fp.tracks[i], 1) ELSE <<>>)
         \o C1_LinesOfTracks(fp, i + 1)

C1_IsLine(g) == g.graphic_type = "Line"

C1_EmittedLines(graphics) ==
    LET lines == SelectSeq(graphics, C1_IsLine)
    IN  [i \in 1..Len(lines) |-> <<lines[i].start, lines[i].end>>]

C2_DrillClassification ==
    FpConverted =>
        \A i \in 1..Len(eeFootprint.pads) :
            LET r == eeFootprint.pads[i].hole_radius
                l == eeFootprint.pads[i].hole_length
                pad == fpResult.val.pads[i]
            IN  /\ (r > 0 /\ l = 0) =>
                    pad.drill = Some(2 * r * 254 * Sub) /\ pad.drill_oval = None
                /\ l > 0 =>
                    /\ pad.drill_oval = Some(<<2 * r * 254 * Sub, l * 254 * Sub>>)
                    /\ pad.drill = None
                /\ (r = 0 /\ l = 0) =>
                    pad.pad_type = "smd" /\ pad.drill = None /\ pad.drill_oval = None
                /\ pad.pad_type = "smd" <=> (r = 0 /\ l = 0)

\* A footprint with a round-drilled, an oval-drilled and an SMD pad, converted.
C2_Witness ==
    /\ FpConverted
    /\ \E i, j, k \in 1..Len(fpResult.val.pads) :
        /\ fpResult.val.pads[i].drill.some
        /\ fpResult.val.pads[j].drill_oval.some
        /\ fpResult.val.pads[k].pad_type = "smd"

(***************************************************************************)
(* C3.  convert_symbol returns one pin per decoded pin, in order, with the *)
(* same number and name, and the rotation (src + 180) mod 360, a value of  *)
(* 0..359, for every i32 src.                                              *)
(* Violated: % of Rust keeps the sign of src + 180, and src + 180 leaves   *)
(* i32 for the largest src.                                                *)
(***************************************************************************)
C3_PinsKeptRotationMod360 ==
    pc = "sym_converted" =>
        /\ symResult.kind = "Ok"
        /\ Len(symResult.val.pins) = Len(eeSymbol.pins)
        /\ \A i \in 1..Len(eeSymbol.pins) :
            /\ symResult.val.pins[i].number = eeSymbol.pins[i].number
            /\ symResult.val.pins[i].name = eeSymbol.pins[i].name
            /\ symResult.val.pins[i].rotation = Plus180Mod360(eeSymbol.pins[i].rotation)
            /\ symResult.val.pins[i].rotation \in 0..359

(***************************************************************************)
(* C4.  The bounding box of a converted symbol with a pin or a rectangle   *)
(* is centered at the origin: over the pin positions and the rectangle     *)
(* corners, min x + max x = 0 and min y + max y = 0.  An empty symbol      *)
(* converts, with the center (0, 0).                                       *)
(***************************************************************************)
C4_OutXY(sym, k) ==
    {sym.pins[i].pos[k] : i \in 1..Len(sym.pins)}
    \cup {sym.rectangles[i].start[k] : i \in 1..Len(sym.rectangles)}
    \cup {sym.rectangles[i].end[k] : i \in 1..Len(sym.rectangles)}

C4_SymbolBoxCentered ==
    pc = "sym_converted" =>
        /\ (symResult.kind = "Ok" /\ Len(eeSymbol.pins) + Len(eeSymbol.rectangles) > 0) =>
            \A k \in 1..2 :
                SetMin(C4_OutXY(symResult.val, k)) + SetMax(C4_OutXY(symResult.val, k)) = 0
        /\ (Len(eeSymbol.pins) = 0 /\ Len(eeSymbol.rectangles) = 0) =>
            /\ symResult.kind = "Ok"
            /\ SymbolCenter(eeSymbol) = <<0, 0>>
            /\ symResult.val.pins = <<>> /\ symResult.val.rectangles = <<>>

\* A symbol with pins and a rectangle that reaches beyond them, off center.
C4_Witness ==
    /\ pc = "sym_converted"
    /\ symResult.kind = "Ok"
    /\ Len(eeSymbol.pins) >= 1 /\ Len(eeSymbol.rectangles) >= 1
    /\ SymbolCenter(eeSymbol)[1] # 0 /\ SymbolCenter(eeSymbol)[2] # 0
    /\ \E i \in 1..Len(symResult.val.rectangles) :
        symResult.val.rectangles[i].end[2] = SetMin(C4_OutXY(symResult.val, 2))

(***************************************************************************)
(* C5.  convert_footprint returns one pad per decoded pad, in order; a     *)
(* number that is not blank is kept, a blank one becomes the 1-based       *)
(* position.  One rectangular pad on layer 1 without a hole gives one pad  *)
(* with its number, of type "smd", on F.Cu, F.Paste and F.Mask, undrilled. *)
(***************************************************************************)
C5_Blank == {"", " "}
C5_Decimal(i) == CASE i = 1 -> "1" [] i = 2 -> "2" [] i = 3 -> "3" [] i = 4 -> "4" [] OTHER -> "?"

C5_PadsKeptInOrder ==
    FpConverted =>
        /\ Len(fpResult.val.pads) = Len(eeFootprint.pads)
        /\ \A i \in 1..Len(eeFootprint.pads) :
            LET src == eeFootprint.pads[i]
                pad == fpResult.val.pads[i]
            IN  /\ pad.number = IF src.number \in C5_Blank THEN C5_Decimal(i) ELSE src.number
                /\ pad.size = <<src.width * 254 * Sub, src.height * 254 * Sub>>
                /\ (/\ Len(eeFootprint.pads) = 1 /\ src.shape = "RECT" /\ src.layer_id = 1
                    /\ src.hole_radius = 0 /\ src.hole_length = 0) =>
                        /\ pad.number = src.number
                        /\ pad.pad_type = "smd"
                        /\ pad.shape = "Rect"
                        /\ {pad.layers[j] : j \in 1..Len(pad.layers)}
                               = {"F.Cu", "F.Paste", "F.Mask"}
                        /\ pad.drill = None /\ pad.drill_oval = None

\* Two pads converted: a blank number in second place after a kept "A1".
C5_Witness ==
    /\ FpConverted
    /\ Len(eeFootprint.pads) >= 2
    /\ eeFootprint.pads[1].number = "A1" /\ fpResult.val.pads[1].number = "A1"
    /\ eeFootprint.pads[2].number = " " /\ fpResult.val.pads[2].number = "2"

(***************************************************************************)
(* C6.  A decoded circle is among the graphics only if its layer id is in  *)
(* {1,2,3,4}, its radius is at most 50 mm and its center is no farther     *)
(* than 150 mm from the computed center.                                   *)
(* As stated, with the distance taken in a straight line, it is violated:  *)
(* a circle 142 mm off on both axes, 201 mm away, is kept.  It holds with  *)
(* the distance taken along each axis.                                     *)
(***************************************************************************)
C6_Center(fp, circle) == TrackPoint(fp, <<circle.center_x, circle.center_y>>)

\* The graphic a decoded circle would be drawn as is among the graphics.
C6_Appears(fp, circle, graphics) ==
    \E i \in 1..Len(graphics) :
        /\ graphics[i].graphic_type = "Circle"
        /\ graphics[i].layer = map_layer(circle.layer_id, TRUE)[1]
        /\ graphics[i].center = C6_Center(fp, circle)
        /\ graphics[i].end = <<C6_Center(fp, circle)[1] + circle.radius * 254 * Sub,
                               C6_Center(fp, circle)[2]>>
        /\ graphics[i].width = circle.stroke_width * 254 * Sub

C6_CirclesWithin150mmStraight ==
    FpConverted =>
        \A i \in 1..Len(eeFootprint.circles) :
            LET circle == eeFootprint.circles[i]
            IN  C6_Appears(eeFootprint, circle, fpResult.val.graphics) =>
                    /\ circle.layer_id \in {1, 2, 3, 4}
                    /\ circle.radius * 254 <= 50000
                    /\ ~FartherThan(C6_Center(eeFootprint, circle), 150)

C6_CirclesWithin150mmPerAxis ==
    FpConverted =>
        \A i \in 1..Len(eeFootprint.circles) :
            LET circle == eeFootprint.circles[i]
            IN  C6_Appears(eeFootprint, circle, fpResult.val.graphics) =>
                    /\ circle.layer_id \in {1, 2, 3, 4}
                    /\ circle.radius * 254 <= 50000
                    /\ ~FartherOnAnAxis(C6_Center(eeFootprint, circle), 150)

\* A kept circle beside a circle dropped for its layer, its size or its distance.
C6_Witness ==
    /\ FpConverted
    /\ \E i, j \in 1..Len(eeFootprint.circles) :
        /\ C6_Appears(eeFootprint, eeFootprint.circles[i], fpResult.val.graphics)
        /\ ~C6_Appears(eeFootprint, eeFootprint.circles[j], fpResult.val.graphics)

(***************************************************************************)
(* C7.  A shape line whose leading tag is not a recognized one (P, R for   *)
(* import_symbol; PAD, TRACK, TEXT, CIRCLE, ARC for import_footprint)      *)
(* leaves the decoding Ok and every decoded collection as if the line were *)
(* absent.                                                                 *)
(* Violated: import_symbol decodes a pin from a line that begins with the  *)
(* letter P and holds "^^", whatever its tag.                              *)
(***************************************************************************)
C7_RemoveAt(seq, i) == SubSeq(seq, 1, i - 1) \o SubSeq(seq, i + 1, Len(seq))

C7_TagOf(shape_val) == Str(parse_raw_line(as_str_or(shape_val, ""))[1])

C7_SymbolWithout(i) ==
    import_symbol([payload EXCEPT !.dataStr.shape.items = C7_RemoveAt(@, i)])

C7_FootprintWithout(i) ==
    import_footprint([payload EXCEPT !.packageDetail.dataStr.shape.items = C7_RemoveAt(@, i)])

C7_UnrecognizedLinesIgnored ==
    /\ (impSymbol # Idle /\ payload.dataStr.shape.t = "array") =>
        \A i \in 1..Len(payload.dataStr.shape.items) :
            C7_TagOf(payload.dataStr.shape.items[i]) \notin {"P", "R"} =>
                /\ impSymbol.kind = "Ok"
                /\ impSymbol.val.pins = C7_SymbolWithout(i).val.pins
                /\ impSymbol.val.rectangles = C7_SymbolWithout(i).val.rectangles
    /\ (impFootprint # Idle /\ payload.packageDetail.dataStr.shape.t = "array") =>
        \A i \in 1..Len(payload.packageDetail.dataStr.shape.items) :
            C7_TagOf(payload.packageDetail.dataStr.shape.items[i])
                \notin {"PAD", "TRACK", "TEXT", "CIRCLE", "ARC"} =>
                /\ impFootprint.kind = "Ok"
                /\ impFootprint.val.pads = C7_FootprintWithout(i).val.pads
                /\ impFootprint.val.tracks = C7_FootprintWithout(i).val.tracks
                /\ impFootprint.val.texts = C7_FootprintWithout(i).val.texts
                /\ impFootprint.val.circles = C7_FootprintWithout(i).val.circles
                /\ impFootprint.val.arcs = C7_FootprintWithout(i).val.arcs

(***************************************************************************)
(* C8.  convert_3d_model never returns an error.  For a mesh text with no  *)
(* vertex line and no face line the result carries the fixed boilerplate   *)
(* with an empty point list and an empty coordIndex list; without a mesh   *)
(* text the result carries no mesh output.                                 *)
(***************************************************************************)
C8_NoVertexNoFaceLine(text) ==
    \A i \in 1..Len(Lines(text)) :
        LET parts == split_whitespace(Lines(text)[i])
        IN  parts = <<>> \/ Str(parts[1]) \notin {"v", "f"}

C8_EmptyMesh ==
    <<"#VRML V2.0 utf8\n", "Shape {\n", "  appearance Appearance {\n",
      "    material Material { diffuseColor 0.5 0.5 0.5 }\n", "  }\n",
      "  geometry IndexedFaceSet {\n", "    coord Coordinate {\n",
      "      point [\n", "      ]\n", "    }\n",
      "    coordIndex [\n", "    ]\n", "  }\n", "}\n">>

C8_MeshNeverErrs ==
    meshResult # Idle =>
        /\ meshResult.kind # "Err"
        /\ ~eeModel.raw_obj.some =>
            meshResult.kind = "Ok" /\ meshResult.val.wrl_data = None
        /\ (eeModel.raw_obj.some /\ C8_NoVertexNoFaceLine(eeModel.raw_obj.val)) =>
            meshResult.kind = "Ok" /\ meshResult.val.wrl_data = Some(C8_EmptyMesh)

\* A mesh text of lines that are all ignored has been converted.
C8_Witness ==
    /\ meshResult # Idle
    /\ eeModel.raw_obj.some
    /\ Len(Lines(eeModel.raw_obj.val)) = MaxMeshLines
    /\ C8_NoVertexNoFaceLine(eeModel.raw_obj.val)
    /\ \E i \in 1..Len(Lines(eeModel.raw_obj.val)) :
            StartsWith(Lines(eeModel.raw_obj.val)[i], <<"v", "n">>)
    /\ meshResult.kind = "Ok"

(***************************************************************************)
(* C9.  Each of import_symbol, import_footprint and import_3d_model_info   *)
(* returns an error exactly when the shape array it requires is absent     *)
(* from the payload.                                                       *)
(* Violated: import_3d_model_info returns the JSON error of a malformed    *)
(* text after the SVGNODE marker.                                          *)
(***************************************************************************)
C9_ErrorsOnlyWhenShapeArrayAbsent ==
    /\ impSymbol # Idle =>
        (impSymbol.kind = "Err" <=> payload.dataStr.shape.t # "array")
    /\ impFootprint # Idle =>
        (impFootprint.kind = "Err" <=> payload.packageDetail.dataStr.shape.t # "array")
    /\ impModelInfo # Idle =>
        (impModelInfo.kind = "Err" <=> payload.packageDetail.dataStr.shape.t # "array")

(***************************************************************************)
(* C10.  The module block is a header line, one line per text, the model   *)
(* block exactly when a model is present, one line per pad, one line per   *)
(* graphic of the converted footprint, and the closing line.               *)
(* Violated: to_kicad_mod_entry writes no line for a graphic.              *)
(***************************************************************************)
C10_OneLinePerElement ==
    pc = "fp_written" =>
        LET fp == fpResult.val
            model == IF fp.model_3d.some THEN 1 ELSE 0
        IN  /\ LinesStarting(modText, <<"(", "module ">>) = 1
            /\ LinesStarting(modText, <<"  ", "(", "fp_text ">>) = Len(fp.texts)
            /\ LinesStarting(modText, <<"  ", "(", "model \"../3dmodels.3dshapes/">>) = model
            /\ LinesStarting(modText, <<"  ", "(", "pad ">>) = Len(fp.pads)
            /\ LinesStarting(modText, <<"  ", "(", "fp_line ">>)
                + LinesStarting(modText, <<"  ", "(", "fp_circle ">>) = Len(fp.graphics)
            /\ Count(modText, "\n")
                = 1 + Len(fp.texts) + 5 * model + Len(fp.pads) + Len(fp.graphics) + 1
            /\ SubSeq(modText, Len(modText) - 1, Len(modText)) = <<")", "\n">>


(***************************************************************************)
(* C11.  The text written for a converted symbol and for a converted       *)
(* footprint, none of whose strings holds a parenthesis or a quote, has    *)
(* balanced parentheses: scanning it, the nesting depth never goes below   *)
(* zero and ends at zero, and the text ends with a line terminator.        *)
(***************************************************************************)
\* Scanning the tokens a..b from depth 0: <<the depth reached at the end, the
\* lowest depth met on the way (0 at the start)>>, computed by halves.
RECURSIVE C11_Scan(_, _, _)
C11_Scan(text, a, b) ==
    IF a > b THEN <<0, 0>>
    ELSE IF a = b
    THEN (IF text[a] = "(" THEN <<1, 0>>
          ELSE IF text[a] = ")" THEN <<-1, -1>> ELSE <<0, 0>>)
    ELSE LET mid == (a + b) \div 2
             left == C11_Scan(text, a, mid)
             right == C11_Scan(text, mid + 1, b)
             low == left[1] + right[2]
         IN  <<left[1] + right[1], IF low < left[2] THEN low ELSE left[2]>>

C11_Plain(str) == \A i \in 1..Len(str) : SubSeq(str, i, i) \notin {"(", ")", "\""}

C11_SymbolStringsPlain(sym) ==
    /\ C11_Plain(sym.name) /\ C11_Plain(sym.reference)
    /\ C11_Plain(sym.footprint) /\ C11_Plain(sym.datasheet)
    /\ sym.lcsc_part.some => C11_Plain(sym.lcsc_part.val)
    /\ \A i \in 1..Len(sym.pins) :
            C11_Plain(sym.pins[i].name) /\ C11_Plain(sym.pins[i].number)

C11_FootprintStringsPlain(fp) ==
    /\ C11_Plain(fp.name)
    /\ fp.model_3d.some => C11_Plain(fp.model_3d.val.name)
    /\ \A i \in 1..Len(fp.texts) :
            /\ C11_Plain(fp.texts[i].text_type) /\ C11_Plain(fp.texts[i].text)
            /\ C11_Plain(fp.texts[i].layer)
    /\ \A i \in 1..Len(fp.pads) :
            /\ C11_Plain(fp.pads[i].number) /\ C11_Plain(fp.pads[i].pad_type)
            /\ \A k \in 1..Len(fp.pads[i].layers) : C11_Plain(fp.pads[i].layers[k])

C11_Balanced(text) ==
    /\ C11_Scan(text, 1, Len(text)) = <<0, 0>>
    /\ text # <<>> /\ text[Len(text)] = "\n"

C11_BalancedParentheses ==
    /\ (pc = "sym_written" /\ C11_SymbolStringsPlain(symResult.val)) =>
            C11_Balanced(symText)
    /\ (pc = "fp_written" /\ C11_FootprintStringsPlain(fpResult.val)) =>
            C11_Balanced(modText)

\* A symbol with a rectangle, an inverted pin name and no part id has been written.
C11_Witness ==
    /\ pc = "sym_written"
    /\ C11_SymbolStringsPlain(symResult.val)
    /\ ~symResult.val.lcsc_part.some
    /\ Len(symResult.val.rectangles) >= 1
    /\ \E i \in 1..Len(symResult.val.pins) : symResult.val.pins[i].name = "~RST"
    /\ Cardinality({i \in 1..Len(symText) : symText[i] = "("}) > 20


(***************************************************************************)
(* C12.  In import_symbol and import_footprint every accepted record is    *)
(* produced, the decoding is Ok, and a numeric sub-field that fails to     *)
(* parse takes its default.                                                *)
(***************************************************************************)
\* The shape lines of a shape array, as characters.
C12_Lines(shape) == [i \in 1..Len(shape.items) |-> as_str_or(shape.items[i], "")]

C12_Tagged(fields, tag, least) == fields[1] = Chars(tag) /\ Len(fields) >= least

C12_PinBranch(line) == StartsWith(line, <<"P">>) /\ Contains(line, <<"^", "^">>)

C12_IsPin(line) ==
    /\ C12_PinBranch(line)
    /\ Len(Split(line, <<"^", "^">>)) >= 4
    /\ Len(parse_raw_line(Split(line, <<"^", "^">>)[1])) >= 8
    /\ Len(parse_raw_line(Split(line, <<"^", "^">>)[3])) >= 2
    /\ Len(parse_raw_line(Split(line, <<"^", "^">>)[4])) >= 6

C12_IsRect(line) == ~C12_PinBranch(line) /\ C12_Tagged(parse_raw_line(line), "R", 7)
C12_IsPad(fields) == C12_Tagged(fields, "PAD", 12)
C12_IsTrack(fields) == C12_Tagged(fields, "TRACK", 5)
C12_IsText(fields) == C12_Tagged(fields, "TEXT", 11)
C12_IsCircle(fields) == C12_Tagged(fields, "CIRCLE", 6)
C12_IsArc(fields) == C12_Tagged(fields, "ARC", 4)

\* The numeric sub-fields of each record: <<field, place in the line, "f" for
\* f32 or "i" for i32>>.
C12_PinNums == {<<"pos_x", 5, "f">>, <<"pos_y", 6, "f">>, <<"rotation", 7, "i">>}
C12_RectNums == {<<"x", 2, "f">>, <<"y", 3, "f">>, <<"width", 6, "f">>, <<"height", 7, "f">>}
C12_PadNums ==
    {<<"center_x", 3, "f">>, <<"center_y", 4, "f">>, <<"width", 5, "f">>,
     <<"height", 6, "f">>, <<"layer_id", 7, "i">>, <<"hole_radius", 10, "f">>,
     <<"rotation", 12, "f">>}
C12_TrackNums == {<<"stroke_width", 2, "f">>, <<"layer_id", 3, "i">>}
C12_TextNums ==
    {<<"center_x", 3, "f">>, <<"center_y", 4, "f">>, <<"rotation", 6, "f">>,
     <<"layer_id", 8, "i">>}
C12_CircleNums ==
    {<<"layer_id", 2, "i">>, <<"stroke_width", 3, "f">>, <<"center_x", 4, "f">>,
     <<"center_y", 5, "f">>, <<"radius", 6, "f">>}
C12_ArcNums == {<<"layer_id", 2, "i">>, <<"stroke_width", 3, "f">>}

C12_Unparsable(text, kind) ==
    IF kind = "i" THEN ~ParseI32(text).ok ELSE ~ParseF32(text).ok

\* Every sub-field of nums that fails to parse in fields has its default in
\* rec: stroke for the stroke width, zero for the others.
C12_FieldsDefault(rec, fields, nums, stroke) ==
    \A n \in nums :
        C12_Unparsable(fields[n[2]], n[3]) =>
            rec[n[1]] = (IF n[1] = "stroke_width" THEN stroke ELSE 0)

\* The records recs are those of the accepted lines (each given by its
\* fields), one each and in order, with the defaults in place.
C12_Records(recs, accepted, nums, stroke) ==
    /\ Len(recs) = Len(accepted)
    /\ \A k \in 1..Len(accepted) : C12_FieldsDefault(recs[k], accepted[k], nums, stroke)

C12_FieldsOf(lines) == [k \in 1..Len(lines) |-> parse_raw_line(lines[k])]

\* The text the pin length is parsed from: the last word of the second path
\* field, "0" when it has no word.
C12_PinLengthText(line) ==
    LET words == split_whitespace(parse_raw_line(Split(line, <<"^", "^">>)[3])[2])
    IN  IF words = <<>> THEN <<"0">> ELSE words[Len(words)]

C12_Pins(pins, accepted, length) ==
    /\ Len(pins) = Len(accepted)
    /\ \A k \in 1..Len(accepted) :
        /\ C12_FieldsDefault(pins[k], parse_raw_line(Split(accepted[k], <<"^", "^">>)[1]),
                             C12_PinNums, 0)
        /\ ~ParseF32(C12_PinLengthText(accepted[k])).ok => pins[k].pin_length = length

\* The points of a track: a coordinate that fails to parse is 0.
C12_TrackPoints(tracks, accepted) ==
    \A k \in 1..Len(accepted) :
        LET texts == Split(accepted[k][5], <<" ">>)
        IN  /\ Len(tracks[k].points) = Len(texts) \div 2
            /\ \A j \in 1..Len(tracks[k].points) : \A c \in 1..2 :
                    ~ParseF32(texts[2 * (j - 1) + c]).ok => tracks[k].points[j][c] = 0

\* The hole length of a pad whose field 13 is there and fails to parse: zero,
\* or with fallback what field 12 gives when it parses as a positive number.
C12_HoleLengths(pads, accepted, fallback) ==
    \A k \in 1..Len(accepted) :
        LET fields == accepted[k]
        IN  (Len(fields) >= 14 /\ ~ParseF32(fields[14]).ok) =>
                pads[k].hole_length =
                    (IF fallback /\ ParseF32(fields[13]).ok /\ ParseF32(fields[13]).val > 0
                     THEN ParseF32(fields[13]).val ELSE 0)

\* stroke: the default stroke width of a circle and of an arc; length: the
\* default pin length; fallback: whether field 12 stands in for a hole length
\* that is not a number.
C12_Defaults(stroke, length, fallback) ==
    /\ (impSymbol # Idle /\ payload.dataStr.shape.t = "array") =>
        LET lines == C12_Lines(payload.dataStr.shape)
        IN  /\ impSymbol.kind = "Ok"
            /\ C12_Pins(impSymbol.val.pins, SelectSeq(lines, C12_IsPin), length)
            /\ C12_Records(impSymbol.val.rectangles,
                           C12_FieldsOf(SelectSeq(lines, C12_IsRect)), C12_RectNums, 0)
    /\ (impFootprint # Idle /\ payload.packageDetail.dataStr.shape.t = "array") =>
        LET lines == ShapeFieldsFrom(payload.packageDetail.dataStr.shape.items, 1)
            fp == impFootprint.val
        IN  /\ impFootprint.kind = "Ok"
            /\ C12_Records(fp.pads, SelectSeq(lines, C12_IsPad), C12_PadNums, 0)
            /\ C12_HoleLengths(fp.pads, SelectSeq(lines, C12_IsPad), fallback)
            /\ C12_Records(fp.tracks, SelectSeq(lines, C12_IsTrack), C12_TrackNums, 0)
            /\ C12_TrackPoints(fp.tracks, SelectSeq(lines, C12_IsTrack))
            /\ C12_Records(fp.texts, SelectSeq(lines, C12_IsText), C12_TextNums, 0)
            /\ C12_Records(fp.circles, SelectSeq(lines, C12_IsCircle), C12_CircleNums, stroke)
            /\ C12_Records(fp.arcs, SelectSeq(lines, C12_IsArc), C12_ArcNums, stroke)

C13_PadLines ==
    SelectSeq(ShapeFieldsFrom(payload.packageDetail.dataStr.shape.items, 1),
              LAMBDA fields : fields[1] = Chars("PAD"))

C13_Accepted == SelectSeq(C13_PadLines, LAMBDA fields : Len(fields) >= 12)

\* The number a field stands for, 0.0 when it is none.
C13_Value(text) == IF ParseF32(text).ok THEN ParseF32(text).val ELSE 0

\* Field 12 as a hole length: its value when positive, else 0.
C13_Field12(fields) ==
    IF Len(fields) >= 13 /\ C13_Value(fields[13]) > 0 THEN C13_Value(fields[13]) ELSE 0

C13_Decoded == impFootprint # Idle /\ payload.packageDetail.dataStr.shape.t = "array"

\* The hole length the fields of a line stand for: field 13 when it is
\* present (and, with zero_gives_way, its value is not zero), else field 12.
C13_HoleLength(fields, zero_gives_way) ==
    IF Len(fields) >= 14 /\ (zero_gives_way => C13_Value(fields[14]) # 0)
    THEN C13_Value(fields[14]) ELSE C13_Field12(fields)

\* The pads are those of the accepted lines, each with its hole length.
C13_Pads(zero_gives_way) ==
    C13_Decoded =>
        LET accepted == C13_Accepted
        IN  /\ impFootprint.kind = "Ok"
            /\ Len(impFootprint.val.pads) = Len(accepted)
            /\ \A k \in 1..Len(accepted) :
                    impFootprint.val.pads[k].hole_length
                        = C13_HoleLength(accepted[k], zero_gives_way)

\* The claim as stated: field 13 decides whenever it is present.
\* Violated: a field 13 that is zero or no number gives way to field 12.
C13_HoleLengthField13First == C13_Pads(FALSE)

\* C13 as amended: field 13 decides when it is present and its value is not
\* zero; field 12 is consulted when field 13 is absent, is no number or is
\* zero, and is used only if it parses as a positive number.
C13_HoleLengthField13ThenField12 == C13_Pads(TRUE)

\* A PAD line of 11 fields has been dropped beside a pad whose field 13 is
\* zero and whose field 12 is a positive number.
C13_Witness ==
    /\ C13_Decoded
    /\ Len(C13_PadLines) = 2 /\ Len(C13_Accepted) = 1
    /\ Len(C13_Accepted[1]) >= 14
    /\ C13_Value(C13_Accepted[1][14]) = 0
    /\ impFootprint.val.pads[1].hole_length = 7000

(***************************************************************************)
(* C14.  Centering is idempotent.  When a symbol arrives with bbox (0,0)   *)
(* and the midpoint of its bounding box at the origin, or a footprint with *)
(* bbox (0,0) and the centroid of its pads at the origin, the computed     *)
(* center is zero and every position of the output is the unit-converted   *)
(* source position (y negated for symbols); and the center computed again  *)
(* from the output is zero, so that a second centering moves nothing.      *)
(***************************************************************************)
C14_SymConverted == pc \in {"sym_converted", "sym_written"} /\ symResult.kind = "Ok"

C14_SymbolCentered(s) == s.bbox = <<0, 0>> /\ BoxPoints(s) # <<>> /\ SymbolCenter(s) = <<0, 0>>

C14_FootprintCentered(fp) ==
    fp.bbox = <<0, 0>> /\ Len(fp.pads) > 0 /\ Centroid(raw_pad_pos(fp)) = <<0, 0>>

\* The points of a converted symbol the bounding box would run over.
C14_OutPoints(sym) ==
    [i \in 1..Len(sym.pins) |-> sym.pins[i].pos]
    \o RectCorners([i \in 1..Len(sym.rectangles) |->
                        <<sym.rectangles[i].start, sym.rectangles[i].end>>])

C14_Positions(items) == [i \in 1..Len(items) |-> items[i].pos]

\* The unit-converted points of the tracks, and centers of the circles, of the source.
C14_TrackPoints(fp) ==
    {<<ee_to_mm(fp.tracks[t].points[k][1]), ee_to_mm(fp.tracks[t].points[k][2])>> :
        <<t, k>> \in {tk \in (1..Len(fp.tracks)) \X (1..3) : tk[2] <= Len(fp.tracks[tk[1]].points)}}
C14_CircleCenters(fp) ==
    {<<ee_to_mm(fp.circles[c].center_x), ee_to_mm(fp.circles[c].center_y)>> : c \in 1..Len(fp.circles)}

C14_SymbolUnmoved ==
    (C14_SymConverted /\ C14_SymbolCentered(eeSymbol)) =>
        LET s == eeSymbol
            sym == symResult.val
        IN  /\ \A i \in 1..Len(s.pins) :
                    sym.pins[i].pos = <<ee_to_mm(s.pins[i].pos_x), ee_to_mm(-s.pins[i].pos_y)>>
            /\ \A i \in 1..Len(s.rectangles) :
                    LET r == s.rectangles[i]
                    IN  /\ sym.rectangles[i].start = <<ee_to_mm(r.x), ee_to_mm(-r.y)>>
                        /\ sym.rectangles[i].end = <<ee_to_mm(r.x) + ee_to_mm(r.width),
                                                     ee_to_mm(-r.y) - ee_to_mm(r.height)>>
            /\ BoxCenter(C14_OutPoints(sym)) = <<0, 0>>

C14_FootprintUnmoved ==
    (FpConverted /\ C14_FootprintCentered(eeFootprint)) =>
        LET fp == eeFootprint
            out == fpResult.val
            marked == Len(Pin1Marker(out.pads))
        IN  /\ FootprintCenter(fp) = <<0, 0>>
            /\ \A i \in 1..Len(fp.pads) :
                    out.pads[i].pos = <<ee_to_mm(fp.pads[i].center_x), ee_to_mm(fp.pads[i].center_y)>>
            /\ \A i \in 1..Len(fp.texts) :
                    out.texts[i].pos = <<ee_to_mm(fp.texts[i].center_x), ee_to_mm(fp.texts[i].center_y)>>
            /\ \A g \in 1..(Len(out.graphics) - marked) :
                    IF out.graphics[g].graphic_type = "Line"
                    THEN /\ out.graphics[g].start \in C14_TrackPoints(fp)
                         /\ out.graphics[g].end \in C14_TrackPoints(fp)
                    ELSE out.graphics[g].center \in C14_CircleCenters(fp)
            /\ Centroid(C14_Positions(out.pads)) = <<0, 0>>

C14_CenteringIdempotent == C14_SymbolUnmoved /\ C14_FootprintUnmoved

\* A centered symbol of two pins and a rectangle has been converted; or a
\* centered footprint of two pads at different places and a text, track or circle.
C14_Witness ==
    \/ /\ C14_SymConverted /\ C14_SymbolCentered(eeSymbol)
       /\ Len(eeSymbol.pins) = 2 /\ Len(eeSymbol.rectangles) = 1
       /\ eeSymbol.pins[1].pos_x # eeSymbol.pins[2].pos_x
    \/ /\ FpConverted /\ C14_FootprintCentered(eeFootprint)
       /\ Len(eeFootprint.pads) = 2
       /\ eeFootprint.pads[1].center_x # eeFootprint.pads[2].center_x
       /\ Len(fpResult.val.graphics) + Len(fpResult.val.texts) >= 2

(***************************************************************************)
(* C15.  When the component endpoint reports failure (success false, or    *)
(* success without a result), import_component returns an error: it never  *)
(* goes on to decode, and once it has returned its result is an error, no  *)
(* symbol has been added to the library and no footprint or model file has *)
(* been written; the directories of the library are all it has made.       *)
(***************************************************************************)
C15_ApiReportsFailure ==
    apiResponse # Idle /\ apiResponse.sent /\ (~apiResponse.success \/ ~apiResponse.result.some)

C15_OnlyDirectories ==
    /\ fsFiles = {}
    /\ libSymbols \in Libraries
    /\ \A i \in 1..Len(fsLog) : fsLog[i][1] = "create_dir_all"

C15_ApiFailureWritesNothing ==
    C15_ApiReportsFailure =>
        /\ pc \in {"comp_start", "comp_fetch", "comp_done"}
        /\ payload = Idle
        /\ C15_OnlyDirectories
        /\ pc = "comp_done" =>
                /\ compResult.kind = "Err"
                /\ fsDirs = Range(LibraryDirs)
                /\ Len(fsLog) = Len(LibraryDirs)

\* The call has returned after an answer with success false that carried a
\* result all the same.
C15_Witness ==
    /\ pc = "comp_done" /\ compResult.kind = "Err"
    /\ apiResponse.sent /\ ~apiResponse.success /\ apiResponse.result.some
    /\ fsDirs # {}

(***************************************************************************)
(* C16.  map_layer is total and never returns the empty list: a drilled    *)
(* pad gets *.Cu and *.Mask whatever its layer id; a surface-mounted pad   *)
(* gets the layers of its id (1, 2, 3, 4, 13, 15) and F.Fab for every      *)
(* other id, zero, the negatives and the ends of i32 included.             *)
(***************************************************************************)
C16_SmdLayers ==
    [id \in {1, 2, 3, 4, 13, 15} |->
        IF id = 1 THEN {"F.Cu", "F.Paste", "F.Mask"}
        ELSE IF id = 2 THEN {"B.Cu", "B.Paste", "B.Mask"}
        ELSE IF id = 3 THEN {"F.SilkS"}
        ELSE IF id = 4 THEN {"B.SilkS"}
        ELSE IF id = 13 THEN {"F.Fab"}
        ELSE {"Dwgs.User"}]

C16_Expected(id, drilled) ==
    IF drilled THEN {"*.Cu", "*.Mask"}
    ELSE IF id \in DOMAIN C16_SmdLayers THEN C16_SmdLayers[id]
    ELSE {"F.Fab"}

C16_MapLayerTotal ==
    FpConverted =>
        /\ fpResult.kind = "Ok"
        /\ \A i \in 1..Len(eeFootprint.pads) :
                LET pad == eeFootprint.pads[i]
                    layers == fpResult.val.pads[i].layers
                IN  /\ Range(layers) = C16_Expected(pad.layer_id, fpResult.val.pads[i].pad_type # "smd")
                    /\ Len(layers) = Cardinality(Range(layers))
                    /\ layers # <<>>
        /\ \A g \in 1..Len(fpResult.val.graphics) :
                fpResult.val.graphics[g].graphic_type = "Line" =>
                    \E t \in 1..Len(eeFootprint.tracks) :
                        fpResult.val.graphics[g].layer
                            \in C16_Expected(eeFootprint.tracks[t].layer_id, FALSE)

\* A surface-mounted pad on layer 0, on a negative layer and on the least i32
\* has been converted: each such state is a witness.
C16_Witness ==
    /\ FpConverted
    /\ Len(eeFootprint.pads) = 1
    /\ eeFootprint.pads[1].layer_id \in {0, -1, I32_MIN}
    /\ fpResult.val.pads[1].pad_type = "smd"
    /\ fpResult.val.pads[1].layers = <<"F.Fab">>

(***************************************************************************)
(* C17.  The unit factor and the bbox origin are applied once.  A symbol   *)
(* position is 0.254 * (src - bbox) with y negated, minus the center; a    *)
(* footprint pad, text, track point and circle position is                 *)
(* 0.254 * (src - bbox) with y as it is, minus the center; a size, radius, *)
(* stroke width, pin length and drill dimension is 0.254 * src (a drill    *)
(* diameter being twice the source hole radius).  The pin-1 marker is      *)
(* synthesized and is no part of the statement.                            *)
(***************************************************************************)
\* 0.254 * v, in the unit of the target.
C17_Scaled(v) == v * 254 * Sub

C17_SymbolPos(s, x, y) ==
    <<C17_Scaled(x - s.bbox[1]) - SymbolCenter(s)[1],
      C17_Scaled(-(y - s.bbox[2])) - SymbolCenter(s)[2]>>

C17_FootprintPos(fp, x, y) ==
    <<C17_Scaled(x - fp.bbox[1]) - FootprintCenter(fp)[1],
      C17_Scaled(y - fp.bbox[2]) - FootprintCenter(fp)[2]>>

C17_Symbol ==
    C14_SymConverted =>
        LET s == eeSymbol
            sym == symResult.val
        IN  /\ \A i \in 1..Len(s.pins) :
                    /\ sym.pins[i].pos = C17_SymbolPos(s, s.pins[i].pos_x, s.pins[i].pos_y)
                    /\ sym.pins[i].length = C17_Scaled(s.pins[i].pin_length)
            /\ \A i \in 1..Len(s.rectangles) :
                    LET r == s.rectangles[i]
                    IN  /\ sym.rectangles[i].start = C17_SymbolPos(s, r.x, r.y)
                        /\ sym.rectangles[i].end = C17_SymbolPos(s, r.x + r.width, r.y + r.height)

C17_Drill(pad, out_pad) ==
    /\ out_pad.drill.some => out_pad.drill.val = C17_Scaled(2 * pad.hole_radius)
    /\ out_pad.drill_oval.some =>
            out_pad.drill_oval.val = <<C17_Scaled(2 * pad.hole_radius), C17_Scaled(pad.hole_length)>>

C17_LineOf(fp, g) ==
    \E t \in 1..Len(fp.tracks) : \E i \in 1..(Len(fp.tracks[t].points) - 1) :
        LET a == fp.tracks[t].points[i]
            b == fp.tracks[t].points[i + 1]
        IN  /\ g.start = C17_FootprintPos(fp, a[1], a[2])
            /\ g.end = C17_FootprintPos(fp, b[1], b[2])
            /\ g.width = C17_Scaled(fp.tracks[t].stroke_width)

C17_CircleOf(fp, g) ==
    \E c \in 1..Len(fp.circles) :
        /\ g.center = C17_FootprintPos(fp, fp.circles[c].center_x, fp.circles[c].center_y)
        /\ g.end = <<g.center[1] + C17_Scaled(fp.circles[c].radius), g.center[2]>>
        /\ g.width = C17_Scaled(fp.circles[c].stroke_width)

C17_Footprint ==
    FpConverted =>
        LET fp == eeFootprint
            out == fpResult.val
            marked == Len(Pin1Marker(out.pads))
        IN  /\ \A i \in 1..Len(fp.pads) :
                    /\ out.pads[i].pos = C17_FootprintPos(fp, fp.pads[i].center_x, fp.pads[i].center_y)
                    /\ out.pads[i].size = <<C17_Scaled(fp.pads[i].width), C17_Scaled(fp.pads[i].height)>>
                    /\ C17_Drill(fp.pads[i], out.pads[i])
            /\ \A i \in 1..Len(fp.texts) :
                    out.texts[i].pos = C17_FootprintPos(fp, fp.texts[i].center_x, fp.texts[i].center_y)
            /\ \A g \in 1..(Len(out.graphics) - marked) :
                    IF out.graphics[g].graphic_type = "Line"
                    THEN C17_LineOf(fp, out.graphics[g])
                    ELSE C17_CircleOf(fp, out.graphics[g])

C17_UnitFactorAndOriginOnce == C17_Symbol /\ C17_Footprint

\* A symbol with a pin and a rectangle off the bbox origin and off the center
\* has been converted; or a footprint with a drilled pad off the center, a
\* line and a text or circle, its bbox origin not (0,0).
C17_Witness ==
    \/ /\ C14_SymConverted
       /\ eeSymbol.bbox # <<0, 0>> /\ SymbolCenter(eeSymbol) # <<0, 0>>
       /\ Len(eeSymbol.pins) >= 1 /\ Len(eeSymbol.rectangles) >= 1
       /\ eeSymbol.pins[1].pos_y # eeSymbol.bbox[2]
    \/ /\ FpConverted
       /\ eeFootprint.bbox # <<0, 0>> /\ FootprintCenter(eeFootprint) # <<0, 0>>
       /\ \E i \in 1..Len(fpResult.val.pads) :
            fpResult.val.pads[i].drill_oval.some /\ eeFootprint.pads[i].center_y # eeFootprint.bbox[2]
       /\ \E g \in 1..Len(fpResult.val.graphics) : fpResult.val.graphics[g].graphic_type = "Line"
       /\ Len(fpResult.val.graphics) + Len(fpResult.val.texts) >= 2

(***************************************************************************)
(* C18.  The center convert_footprint subtracts is the mean of the pad     *)
(* centers when there is a pad (the texts play no part), the mean of the   *)
(* text centers when there is no pad but a text, and (0,0) when there is   *)
(* neither; with a pad, the pad positions of the output sum to zero on     *)
(* each axis.  The center shows in the output as the difference between a  *)
(* unit-converted source position and the position put out.                *)
(***************************************************************************)
\* The unit-converted place of a source point, the bbox origin taken off.
C18_Raw(fp, x, y) == <<C17_Scaled(x - fp.bbox[1]), C17_Scaled(y - fp.bbox[2])>>

\* count times the shift from raw to pos is sum: the shift is sum / count.
C18_ShiftedByMean(raw, pos, count, sum) ==
    /\ count * (raw[1] - pos[1]) = sum[1]
    /\ count * (raw[2] - pos[2]) = sum[2]

\* The sum of the unit-converted centers of pads or texts.
C18_Sum(fp, items) ==
    LET raws == [i \in 1..Len(items) |-> C18_Raw(fp, items[i].center_x, items[i].center_y)]
    IN  <<SumCoord(raws, 1), SumCoord(raws, 2)>>

\* Every position of the output is its source position shifted by sum / count.
C18_AllShifted(fp, out, count, sum) ==
    /\ \A i \in 1..Len(fp.pads) :
            C18_ShiftedByMean(C18_Raw(fp, fp.pads[i].center_x, fp.pads[i].center_y),
                              out.pads[i].pos, count, sum)
    /\ \A i \in 1..Len(fp.texts) :
            C18_ShiftedByMean(C18_Raw(fp, fp.texts[i].center_x, fp.texts[i].center_y),
                              out.texts[i].pos, count, sum)
    /\ \A g \in 1..(Len(out.graphics) - Len(Pin1Marker(out.pads))) :
            LET gr == out.graphics[g]
            IN  IF gr.graphic_type = "Line"
                THEN \E t \in 1..Len(fp.tracks) : \E k \in 1..(Len(fp.tracks[t].points) - 1) :
                        LET a == fp.tracks[t].points[k]
                            b == fp.tracks[t].points[k + 1]
                        IN  /\ C18_ShiftedByMean(C18_Raw(fp, a[1], a[2]), gr.start, count, sum)
                            /\ C18_ShiftedByMean(C18_Raw(fp, b[1], b[2]), gr.end, count, sum)
                ELSE \E c \in 1..Len(fp.circles) :
                        C18_ShiftedByMean(C18_Raw(fp, fp.circles[c].center_x, fp.circles[c].center_y),
                                          gr.center, count, sum)

C18_CenterIsCentroid ==
    FpConverted =>
        LET fp == eeFootprint
            out == fpResult.val
        IN  IF Len(fp.pads) > 0
            THEN /\ C18_AllShifted(fp, out, Len(fp.pads), C18_Sum(fp, fp.pads))
                 /\ SumCoord(C14_Positions(out.pads), 1) = 0
                 /\ SumCoord(C14_Positions(out.pads), 2) = 0
            ELSE IF Len(fp.texts) > 0
            THEN C18_AllShifted(fp, out, Len(fp.texts), C18_Sum(fp, fp.texts))
            ELSE C18_AllShifted(fp, out, 1, <<0, 0>>)

\* A footprint without pads whose texts have their mean off the bbox origin
\* has been converted, a graphic beside them.
C18_Witness ==
    /\ FpConverted
    /\ Len(eeFootprint.pads) = 0 /\ Len(eeFootprint.texts) >= 2
    /\ C18_Sum(eeFootprint, eeFootprint.texts) # <<0, 0>>
    /\ eeFootprint.texts[1].center_x # eeFootprint.texts[2].center_x
    /\ Len(fpResult.val.graphics) >= 1

(***************************************************************************)
(* C19.  The Line graphics of a converted footprint come from its tracks,  *)
(* track by track: a track on copper (id 1 or 2) gives none, a track of    *)
(* fewer than 2 points gives none, and a track of n points on any other    *)
(* layer gives at most n - 1 lines, each with the name the layer mapping   *)
(* gives the track's id (a silkscreen, fabrication or documentation layer) *)
(* and the track's unit-converted stroke width.                            *)
(***************************************************************************)
\* The name the layer mapping gives a track's id.
C19_LayerName(id) ==
    CASE id = 1 -> "F.Cu" [] id = 2 -> "B.Cu" [] id = 3 -> "F.SilkS" [] id = 4 -> "B.SilkS"
      [] id = 15 -> "Dwgs.User" [] OTHER -> "F.Fab"

C19_GraphicLayers == {"F.SilkS", "B.SilkS", "F.Fab", "Dwgs.User"}

C19_Lines(graphics) == SelectSeq(graphics, C1_IsLine)

\* The most lines a track may give.
C19_AtMost(track) ==
    IF C19_LayerName(track.layer_id) \in C19_GraphicLayers /\ Len(track.points) >= 2
    THEN Len(track.points) - 1 ELSE 0

\* The number of lines the tracks before track t give under the counts k.
RECURSIVE C19_Before(_, _)
C19_Before(k, t) == IF t = 1 THEN 0 ELSE k[t - 1] + C19_Before(k, t - 1)

\* The lines fall into runs, one run of k[t] lines for track t, in track order.
C19_SplitsByTrack(tracks, lines, k) ==
    /\ C19_Before(k, Len(tracks) + 1) = Len(lines)
    /\ \A t \in 1..Len(tracks) :
        /\ k[t] <= C19_AtMost(tracks[t])
        /\ \A i \in 1..k[t] :
            LET line == lines[C19_Before(k, t) + i]
            IN  /\ line.layer = C19_LayerName(tracks[t].layer_id)
                /\ line.layer \in C19_GraphicLayers
                /\ line.width = C17_Scaled(tracks[t].stroke_width)

C19_TrackLinesOnGraphicLayers ==
    FpConverted =>
        LET tracks == eeFootprint.tracks
            lines == C19_Lines(fpResult.val.graphics)
        IN  \E k \in [1..Len(tracks) -> 0..2] : C19_SplitsByTrack(tracks, lines, k)

\* A copper track of two points and a silkscreen track of three points have
\* been converted, and the output holds the two lines of the latter only.
C19_Witness ==
    /\ FpConverted
    /\ \E t \in 1..Len(eeFootprint.tracks) :
        eeFootprint.tracks[t].layer_id = 1 /\ Len(eeFootprint.tracks[t].points) >= 2
    /\ \E t \in 1..Len(eeFootprint.tracks) :
        eeFootprint.tracks[t].layer_id = 3 /\ Len(eeFootprint.tracks[t].points) = 3
    /\ Len(C19_Lines(fpResult.val.graphics)) = 2

(***************************************************************************)
(* C20.  The pin-1 marker.  When a pad of the output is numbered "1", or   *)
(* failing that "A1", the output ends with exactly one marker: a circle on *)
(* F.SilkS of radius 0.25 mm whose center is the center of that pad moved, *)
(* on each axis, by half the pad's size plus 0.5 mm, in the direction +1   *)
(* when the pad's coordinate is above 0.01 mm and -1 otherwise.  A pad     *)
(* numbered "1" is taken before a pad numbered "A1" wherever they stand.   *)
(* Without such a pad there is no marker.                                  *)
(***************************************************************************)
\* The marker is the one graphic drawn 0.15 mm wide: a stroke width that comes
\* from the source is a multiple of 0.254 mm.
C20_IsMarker(g) == g.width = Mm(150)

C20_Numbered(pads, n) == {i \in 1..Len(pads) : pads[i].number = n}

\* The pad the marker goes with, or 0.
C20_Pin1(pads) ==
    IF C20_Numbered(pads, "1") # {} THEN SetMin(C20_Numbered(pads, "1"))
    ELSE IF C20_Numbered(pads, "A1") # {} THEN SetMin(C20_Numbered(pads, "A1"))
    ELSE 0

C20_Dir(p) == IF p > Mm(10) THEN 1 ELSE -1

C20_Center(pad) ==
    <<pad.pos[1] + (pad.size[1] \div 2 + Mm(500)) * C20_Dir(pad.pos[1]),
      pad.pos[2] + (pad.size[2] \div 2 + Mm(500)) * C20_Dir(pad.pos[2])>>

C21_FaceLines(text) ==
    LET IsFace(parts) == parts # <<>> /\ Str(parts[1]) = "f" /\ Len(parts) >= 4
    IN  SelectSeq([i \in 1..Len(Lines(text)) |-> split_whitespace(Lines(text)[i])],
                  IsFace)

\* The lines written between "coordIndex [" and its closing bracket.
C21_WrittenFaces(wrl) ==
    LET m == CHOOSE i \in 1..Len(wrl) : wrl[i] = WrlMiddle[1]
    IN  SubSeq(wrl, m + Len(WrlMiddle), Len(wrl) - Len(WrlTail))

C21_ReferenceWritten(p, written) ==
    LET k == ParseUsize(Split(p, <<"/">>)[1])
    IN  IF ~k.ok THEN written = "0"
        ELSE IF k.val >= 1 THEN written = ToString(k.val - 1)
        ELSE written # "18446744073709551615"

C21_FaceIndicesNeverWrap ==
    (meshResult # Idle /\ eeModel.raw_obj.some) =>
        /\ meshResult.kind = "Ok"
        /\ LET lines == C21_FaceLines(eeModel.raw_obj.val)
               written == C21_WrittenFaces(meshResult.val.wrl_data.val)
           IN  /\ Len(written) = Len(lines)
               /\ \A i \in 1..Len(lines) :
                    /\ Len(written[i]) = 2 * (Len(lines[i]) - 1) + 1
                    /\ \A k \in 1..(Len(lines[i]) - 1) :
                         C21_ReferenceWritten(lines[i][k + 1], written[i][2 * k])

(***************************************************************************)
(* C22.  A vertex line adds a point only if it carries three well-formed   *)
(* coordinates: the number of points written equals the number of vertex   *)
(* lines whose three coordinates parse.                                    *)
(***************************************************************************)
C22_WellFormedVertexLine(line) ==
    LET parts == split_whitespace(line)
    IN  /\ parts # <<>> /\ Str(parts[1]) = "v" /\ Len(parts) >= 4
        /\ \A k \in 2..4 : ParseF32(parts[k]).ok

\* The lines written between "point [" and its closing bracket.
C22_WrittenPoints(wrl) ==
    LET m == CHOOSE i \in 1..Len(wrl) : wrl[i] = WrlMiddle[1]
    IN  SubSeq(wrl, Len(WrlHead) + 1, m - 1)

C22_MalformedVertexLinesSkipped ==
    (meshResult # Idle /\ meshResult.kind = "Ok" /\ eeModel.raw_obj.some) =>
        Len(C22_WrittenPoints(meshResult.val.wrl_data.val))
            = Cardinality({i \in 1..Len(Lines(eeModel.raw_obj.val)) :
                             C22_WellFormedVertexLine(Lines(eeModel.raw_obj.val)[i])})

(***************************************************************************)
(* C26.  Every converted pad carries at most one drill: never the round    *)
(* and the oval drill together; its type is "smd" exactly when it has      *)
(* neither and "thru_hole" exactly when it has one; and its written line   *)
(* has the one form that fits, oval drill, round drill or no drill, the    *)
(* last only for pads of type "smd".                                       *)
(***************************************************************************)
\* Where the pad lines of the written footprint start, in order.
C26_PadStarts ==
    LET IsPadStart(i) == /\ i = 1 \/ modText[i - 1] = "\n"
                         /\ IsPrefixAt(<<"  ", "(", "pad ">>, modText, i)
    IN  SelectSeq([i \in 1..Len(modText) |-> i], IsPadStart)

\* The drill form of the line that starts at a place of the written footprint.
C26_Form(start) ==
    LET end == CHOOSE j \in start..Len(modText) :
                    modText[j] = "\n" /\ \A k \in start..(j - 1) : modText[k] # "\n"
        oval == Cardinality({j \in start..end : modText[j] = "drill oval "})
        round == Cardinality({j \in start..end : modText[j] = "drill "})
    IN  <<oval, round>>

C26_AtMostOneDrill ==
    (FpConverted /\ fpResult.kind = "Ok") =>
        \A i \in 1..Len(fpResult.val.pads) :
            LET pad == fpResult.val.pads[i]
            IN  /\ ~(pad.drill.some /\ pad.drill_oval.some)
                /\ pad.pad_type = "smd" <=> (~pad.drill.some /\ ~pad.drill_oval.some)
                /\ pad.pad_type = "thru_hole" <=> (pad.drill.some \/ pad.drill_oval.some)
                /\ pc = "fp_written" =>
                    /\ Len(C26_PadStarts) = Len(fpResult.val.pads)
                    /\ C26_Form(C26_PadStarts[i]) \in {<<1, 0>>, <<0, 1>>, <<0, 0>>}
                    /\ C26_Form(C26_PadStarts[i]) = <<1, 0>> <=> pad.drill_oval.some
                    /\ C26_Form(C26_PadStarts[i]) = <<0, 1>> <=> pad.drill.some
                    /\ C26_Form(C26_PadStarts[i]) = <<0, 0>> => pad.pad_type = "smd"

\* A footprint whose pads take the three forms has been written.
C26_Witness ==
    /\ pc = "fp_written"
    /\ Len(C26_PadStarts) >= 2
    /\ \E i, j \in 1..Len(C26_PadStarts) :
        /\ C26_Form(C26_PadStarts[i]) = <<1, 0>>
        /\ C26_Form(C26_PadStarts[j]) = <<0, 1>>
    /\ \E i \in 1..Len(fpResult.val.pads) : fpResult.val.pads[i].pad_type = "smd"

(***************************************************************************)
(* C25.  In import_component, when a 3D-model reference is found, the two  *)
(* fetches are started together; convert_3d_model runs once, and only when *)
(* both fetches have completed, each with success or failure; the          *)
(* footprint is written only after that conversion; and the model record   *)
(* is not modified after it has been converted.                            *)
(***************************************************************************)
C25_Completed(fetch) == fetch # Idle /\ fetch # Pending

\* The step writes the footprint file.
C25_WritesFootprint ==
    /\ impFootprint.kind = "Ok"
    /\ Len(fsLog') = Len(fsLog) + 1
    /\ fsLog'[Len(fsLog')] = <<"write", FootprintPath(impFootprint.val.info.name)>>

C25_ConvertedOnceAfterBothFetches ==
    [][/\ (fetches.obj # Pending /\ fetches'.obj = Pending)
            \/ (fetches.step # Pending /\ fetches'.step = Pending) =>
            /\ fetches = [obj |-> Idle, step |-> Idle]
            /\ fetches' = [obj |-> Pending, step |-> Pending]
       /\ meshResult' # meshResult =>
            /\ meshResult = Idle
            /\ C25_Completed(fetches.obj) /\ C25_Completed(fetches.step)
            /\ eeModel'.raw_obj = ok(fetches.obj) /\ eeModel'.step = ok(fetches.step)
       /\ (C25_WritesFootprint /\ impModelInfo.kind = "Ok" /\ impModelInfo.val.some) =>
            meshResult.kind = "Ok" /\ meshResult' = meshResult
       /\ meshResult # Idle => eeModel' = eeModel
      ]_vars

\* A run with a model reference, a failed mesh fetch and a successful solid
\* fetch has written its footprint.
C25_Witness ==
    /\ pc = "comp_done" /\ compResult.kind = "Ok"
    /\ fetches.obj.kind = "Err" /\ fetches.step.kind = "Ok"
    /\ meshResult.kind = "Ok"
    /\ eeModel.step.some /\ ~eeModel.raw_obj.some
    /\ FootprintPath(impFootprint.val.info.name) \in fsFiles

(***************************************************************************)
(* C27.  After a successful import_component, whenever the written         *)
(* footprint refers to the 3D model "<name>.wrl", the file "<name>.wrl"    *)
(* has been written to the 3D-model directory, whatever the outcomes of    *)
(* the mesh fetch and of the solid fetch.                                  *)
(***************************************************************************)
\* The names of the models the written footprint refers to.
C27_ModelReferences ==
    {modText[i + 1] : i \in {j \in 1..(Len(modText) - 2) :
        /\ modText[j] = "model \"../3dmodels.3dshapes/"
        /\ modText[j + 2] = ".wrl\""}}

C27_ReferencedMeshWritten ==
    (pc = "comp_done" /\ compResult.kind = "Ok") =>
        \A name \in C27_ModelReferences :
            ("3dmodels.3dshapes/" \o name \o ".wrl") \in fsFiles

(***************************************************************************)
(* C28.  import_component writes all of a component's outputs or none:     *)
(* when it returns an error, the symbol library is unchanged and no        *)
(* footprint or 3D-model file has been written; and the symbol is added to *)
(* the library only in runs where the footprint file is written too.       *)
(***************************************************************************)
\* The paths written so far, from the log of file operations.
C28_Written == {fsLog[i][2] : i \in {j \in 1..Len(fsLog) : fsLog[j][1] = "write"}}

C28_AllOutputsOrNone ==
    pc = "comp_done" =>
        /\ compResult.kind = "Err" => (C28_Written = {} /\ fsFiles = {})
        /\ "symbols/lib.kicad_sym" \in C28_Written =>
                \E path \in C28_Written : StartsWith(Chars(path), Chars("footprints.pretty/"))

(***************************************************************************)
(* C23.  After any sequence of add_symbol calls on a library file that was *)
(* missing or empty, the file is the fixed header, then the entries of the *)
(* symbols added, in the order of their first addition, then the fixed     *)
(* footer, once and at the very end.                                       *)
(***************************************************************************)
\* The entries of the calls from the i-th on that did not skip their symbol.
RECURSIVE C23_EntriesFrom(_)
C23_EntriesFrom(i) ==
    IF i > Len(libCalls) THEN <<>>
    ELSE (IF libCalls[i].outcome = "Skipping" THEN <<>>
          ELSE to_kicad_lib_entry(libCalls[i].symbol)) \o C23_EntriesFrom(i + 1)

C23_HeaderEntriesFooter ==
    (pc = "lib" /\ libCalls # <<>>) =>
        /\ libFile.some
        /\ libFile.val =
            <<"(", "kicad_symbol_lib ", "(", "version 20211014", ")", " ",
              "(", "generator easyeda2kicad_rs", ")", "\n">>
            \o C23_EntriesFrom(1) \o <<")", "\n">>
        /\ libCalls[1].outcome = "Created"
        /\ \A i \in 2..Len(libCalls) : libCalls[i].outcome \in {"Appended", "Skipping"}

\* Three different symbols have been added to a library file that was
\* missing or empty.
C23_Witness ==
    /\ pc = "lib" /\ Len(libCalls) = MaxAdds
    /\ \A i \in 1..Len(libCalls) : libCalls[i].outcome # "Skipping"
    /\ libCalls[2].outcome = "Appended"
    /\ libFile.some /\ Len(libFile.val) > Len(to_kicad_lib_entry(libCalls[1].symbol)) + 12

(***************************************************************************)
(* C24.  add_symbol is idempotent per symbol name: a call for a name that  *)
(* is already a top-level entry of the library leaves the file unchanged,  *)
(* so no name is a top-level entry twice; and a call for a name that is    *)
(* not yet a top-level entry adds it, also when the name is that of the    *)
(* unit nested in another entry.                                           *)
(***************************************************************************)
\* The places of a library text where a top-level entry starts.
C24_TopLevelStarts(file) ==
    IF ~file.some THEN {}
    ELSE {i \in 1..(Len(file.val) - 2) :
            /\ i > 1 /\ file.val[i - 1] = "\n"
            /\ file.val[i] = "(" /\ file.val[i + 1] = "symbol \""}

C24_TopLevelNames(file) == {file.val[i + 2] : i \in C24_TopLevelStarts(file)}

C24_IdempotentPerName ==
    [][libCalls' # libCalls =>
        LET name == libCalls'[Len(libCalls')].symbol.name
        IN  /\ name \in C24_TopLevelNames(libFile) => libFile' = libFile
            /\ name \notin C24_TopLevelNames(libFile) =>
                    /\ name \in C24_TopLevelNames(libFile')
                    /\ libCalls'[Len(libCalls')].outcome # "Skipping"
            /\ Cardinality(C24_TopLevelStarts(libFile'))
                    = Cardinality(C24_TopLevelNames(libFile'))
      ]_vars

=============================================================================
